---- MODULE Spec2Model ----
(***************************************************************************)
(* Model of the token-indexed search engine of hanami-wasm-search           *)
(* (crate/src/lib.rs): the Index struct, its mutation API and its search.   *)
(*                                                                         *)
(* A string is a sequence of characters (Unicode code points).  Each       *)
(* character is written as a TLA+ string: "a", "i", "A", "1" are the ASCII  *)
(* characters of that name, "U3042" and "U3044" are the hiragana letters    *)
(* U+3042 (a) and U+3044 (i), three bytes each in UTF-8.                    *)
(***************************************************************************)
EXTENDS Integers, Sequences, FiniteSets, TLC

\* The six fields of the Index, the StringCache of the substring-scan engine, and the
\* call the caller is looking at
VARIABLES postings, doc_len, doc_aliases, n_docs, k1, b, cache, ret

vars == <<postings, doc_len, doc_aliases, n_docs, k1, b, cache, ret>>

-----------------------------------------------------------------------------
(* Characters and strings                                                  *)

HiraganaChars == {"U3042", "U3044"}

\* char::len_utf8
len_utf8(c) == IF c \in HiraganaChars THEN 3 ELSE 1

\* str::len: the length in bytes
RECURSIVE str_len(_)
str_len(s) == IF s = <<>> THEN 0 ELSE len_utf8(Head(s)) + str_len(Tail(s))

\* The byte offset of the k-th character (k = Len + 1: the length in bytes)
byte_offset(text, k) == str_len(SubSeq(text, 1, k - 1))

\* str::is_char_boundary
is_char_boundary(text, i) == \E k \in 1..(Len(text) + 1) : byte_offset(text, k) = i

\* The characters of text from the k-th on, the k-th at byte offset off, that begin
\* at a byte offset in lo..hi-1
RECURSIVE slice_walk(_, _, _, _, _)
slice_walk(text, k, off, lo, hi) ==
    IF k > Len(text) \/ off >= hi THEN <<>>
    ELSE (IF off >= lo THEN <<text[k]>> ELSE <<>>)
         \o slice_walk(text, k + 1, off + len_utf8(text[k]), lo, hi)

\* &text[lo..hi] for lo and hi on character boundaries
byte_slice(text, lo, hi) == slice_walk(text, 1, 0, lo, hi)

\* char::is_ascii_alphabetic
is_ascii_alphabetic(c) == c \in {"a", "i", "A"}

\* str::to_lowercase
to_lowercase(s) == [k \in 1..Len(s) |-> IF s[k] = "A" THEN "a" ELSE s[k]]

\* wana_kana to_hiragana on lower-case text: the romaji vowels a and i become
\* the kana U+3042 and U+3044, every other character of the alphabet stays.
to_hiragana(s) ==
    [k \in 1..Len(s) |-> CASE s[k] = "a" -> "U3042"
                           [] s[k] = "i" -> "U3044"
                           [] OTHER -> s[k]]

\* str::starts_with
starts_with(s, t) == Len(t) <= Len(s) /\ SubSeq(s, 1, Len(t)) = t

\* str::contains
contains(s, t) ==
    \E k \in 0..(Len(s) - Len(t)) : SubSeq(s, k + 1, k + Len(t)) = t

-----------------------------------------------------------------------------
(* Tokenizer                                                               *)

\* One token too few: the whole text is not appended after the bigrams.
tokenize_2gram_no_whole(text) ==
    IF Len(text) = 0 THEN <<>>
    ELSE IF Len(text) = 1 THEN <<text>>
    ELSE [k \in 1..(Len(text) - 1) |-> SubSeq(text, k, k + 1)]

\* fn tokenize_2gram on code points: the pairs of neighbouring characters, then the
\* text.  The index and the search use this form.
tokenize_2gram(text) ==
    IF Len(text) = 0 THEN <<>>
    ELSE IF Len(text) = 1 THEN <<text>>
    ELSE [k \in 1..(Len(text) - 1) |-> SubSeq(text, k, k + 1)] \o <<text>>

\* The slice ends where the second character begins: its length is not added.
RECURSIVE bigram_slices_end_exclusive(_, _, _)
bigram_slices_end_exclusive(text, i, start_idx) ==
    IF i >= Len(text) THEN <<>>
    ELSE LET end_idx == start_idx + len_utf8(text[i])
         IN <<byte_slice(text, start_idx, end_idx)>>
            \o bigram_slices_end_exclusive(text, i + 1, end_idx)

\* The loop of tokenize_2gram as the source computes it, from the i-th character on,
\* which text.char_indices() places at byte offset start_idx: the byte slice from the
\* start of a character to the end of its right neighbour.
RECURSIVE bigram_slices(_, _, _)
bigram_slices(text, i, start_idx) ==
    IF i >= Len(text) THEN <<>>
    ELSE LET end_idx == start_idx + len_utf8(text[i])
         IN <<byte_slice(text, start_idx, end_idx + len_utf8(text[i + 1]))>>
            \o bigram_slices(text, i + 1, end_idx)

\* fn tokenize_2gram on bytes
tokenize_2gram_slices(text) ==
    IF Len(text) = 0 THEN <<>>
    ELSE IF Len(text) = 1 THEN <<text>>
    ELSE bigram_slices(text, 1, 0) \o <<text>>

-----------------------------------------------------------------------------
(* The Index: a record of the six fields of struct Index.  k1 is held in    *)
(* tenths and b in hundredths.                                              *)

EmptyMap == <<>>

K1_X10 == 12
B_X100 == 75

\* Index::with_params
with_params(k1_x10, b_x100) ==
    [postings |-> EmptyMap, doc_len |-> EmptyMap, doc_aliases |-> EmptyMap, n_docs |-> 0,
     k1 |-> k1_x10, b |-> b_x100]

\* Index::new
new == with_params(K1_X10, B_X100)

\* Index::set_params
set_params(idx, k1_x10, b_x100) == [idx EXCEPT !.k1 = k1_x10, !.b = b_x100]

\* StringCache::new
StringCache_new ==
    [lowercase_cache |-> EmptyMap, hiragana_cache |-> EmptyMap, alias_to_doc |-> EmptyMap]

\* HashMap::remove
map_remove(m, key) == [k \in (DOMAIN m) \ {key} |-> m[k]] @@ EmptyMap

\* HashMap::insert: the entry for key replaces the one m has, if any
map_insert(m, key, value) == (key :> value) @@ m

\* postings.entry(token).or_default().push(doc)
push_posting(p, token, doc) ==
    IF token \in DOMAIN p THEN [p EXCEPT ![token] = Append(@, doc)]
    ELSE map_insert(p, token, <<doc>>)

\* Vec::retain(|id| id != doc_id)
retain_other(list, doc_id) == SelectSeq(list, LAMBDA id : id # doc_id)

-----------------------------------------------------------------------------
(* Removal                                                                 *)

\* usize::saturating_sub
saturating_sub(x, y) == IF x >= y THEN x - y ELSE 0

\* remove_doc derives the name's bigrams only below this many bytes
REMOVE_BIGRAM_BYTES == 50

\* The targeted pass of remove_doc: the loop over tokens_to_check, with its break.
RECURSIVE targeted_pass(_, _, _)
targeted_pass(p, tokens, doc_id) ==
    IF tokens = <<>> THEN p
    ELSE LET token == Head(tokens) IN
         IF token \notin DOMAIN p THEN targeted_pass(p, Tail(tokens), doc_id)
         ELSE LET before_len == Len(p[token])
                  kept == retain_other(p[token], doc_id)
              IN IF kept = <<>> THEN targeted_pass(map_remove(p, token), Tail(tokens), doc_id)
                 ELSE IF before_len = Len(kept) /\ token = doc_id
                      THEN [p EXCEPT ![token] = kept]
                      ELSE targeted_pass([p EXCEPT ![token] = kept], Tail(tokens), doc_id)

\* The fallback pass forgotten: postings reached only through aliases keep the document.
fallback_scrub_skipped(p, doc_id) == p

\* The fallback pass of remove_doc: postings.retain over every posting list.
fallback_scrub(p, doc_id) ==
    LET keep == {t \in DOMAIN p :
                   \/ Len(retain_other(p[t], doc_id)) = Len(p[t])
                   \/ retain_other(p[t], doc_id) # <<>>}
    IN [t \in keep |-> retain_other(p[t], doc_id)] @@ EmptyMap

\* Index::remove_doc
remove_doc(idx, doc_id) ==
    IF doc_id \notin DOMAIN idx.doc_len THEN idx
    ELSE LET tokens_to_check ==
                 <<doc_id>> \o (IF str_len(doc_id) < REMOVE_BIGRAM_BYTES
                                THEN tokenize_2gram(doc_id) ELSE <<>>)
             p1 == targeted_pass(idx.postings, tokens_to_check, doc_id)
         IN [idx EXCEPT !.postings    = fallback_scrub(p1, doc_id),
                        !.doc_len     = map_remove(idx.doc_len, doc_id),
                        !.doc_aliases = map_remove(idx.doc_aliases, doc_id),
                        !.n_docs      = saturating_sub(idx.n_docs, 1)]

-----------------------------------------------------------------------------
(* Indexing                                                                *)

\* The seen set ignored: every token is pushed, also one already pushed for the document.
RECURSIVE insert_tokens_unseen(_, _, _)
insert_tokens_unseen(s, tokens, doc) ==
    IF tokens = <<>> THEN s
    ELSE insert_tokens_unseen(
             [postings |-> push_posting(s.postings, Head(tokens), doc),
              seen     |-> s.seen \cup {Head(tokens)}],
             Tail(tokens), doc)

\* for token in tokens { if !seen.insert(token) { continue; } postings[token].push(doc) }
RECURSIVE insert_tokens(_, _, _)
insert_tokens(s, tokens, doc) ==
    IF tokens = <<>> THEN s
    ELSE IF Head(tokens) \in s.seen THEN insert_tokens(s, Tail(tokens), doc)
    ELSE insert_tokens([postings |-> push_posting(s.postings, Head(tokens), doc),
                        seen     |-> s.seen \cup {Head(tokens)}],
                       Tail(tokens), doc)

\* The alias is pushed but its bigrams are never derived.
RECURSIVE index_aliases_no_bigrams(_, _, _)
index_aliases_no_bigrams(s, aliases, doc) ==
    IF aliases = <<>> THEN s
    ELSE LET alias == Head(aliases) IN
         index_aliases_no_bigrams(
             IF alias \in s.seen THEN s
             ELSE [postings |-> push_posting(s.postings, alias, doc),
                   seen     |-> s.seen \cup {alias}],
             Tail(aliases), doc)

\* for alias in aliases { if !seen.insert(alias) { continue; } push; bigrams of alias }
RECURSIVE index_aliases(_, _, _)
index_aliases(s, aliases, doc) ==
    IF aliases = <<>> THEN s
    ELSE LET alias == Head(aliases) IN
         IF alias \in s.seen THEN index_aliases(s, Tail(aliases), doc)
         ELSE index_aliases(
                  insert_tokens([postings |-> push_posting(s.postings, alias, doc),
                                 seen     |-> s.seen \cup {alias}],
                                tokenize_2gram(alias), doc),
                  Tail(aliases), doc)

\* The postings written for one document: its name, the name's tokens, its aliases
\* and their tokens, each distinct token once.
index_document(p, name, aliases) ==
    LET s0 == [postings |-> push_posting(p, name, name), seen |-> {name}]
        s1 == insert_tokens(s0, tokenize_2gram(name), name)
    IN index_aliases(s1, aliases, name).postings

\* The document stored in doc_len and doc_aliases, counted and indexed
insert_document(idx, name, aliases) ==
    [idx EXCEPT !.postings    = index_document(idx.postings, name, aliases),
                !.doc_len     = map_insert(idx.doc_len, name, Len(aliases) + 1),
                !.doc_aliases = map_insert(idx.doc_aliases, name, aliases),
                !.n_docs      = idx.n_docs + 1]

\* The existing document is not removed before the re-add.
store_document_no_remove(idx, name, aliases) == insert_document(idx, name, aliases)

\* One document stored and indexed: the body of the loop of add_documents, which
\* add_document repeats for its single document.
store_document(idx, name, aliases) ==
    IF name \in DOMAIN idx.doc_len THEN insert_document(remove_doc(idx, name), name, aliases)
    ELSE insert_document(idx, name, aliases)

-----------------------------------------------------------------------------
(* Parse-error diagnostics (log_json_error)                                *)
(* "LF" is the line feed character, one byte.  A malformed text is given    *)
(* with the number of bytes serde_json had consumed when it reported the    *)
(* syntax error; line and column are counted from them as serde_json does.  *)

\* The window of log_json_error reaches this many bytes to each side
CONTEXT_RADIUS == 20

\* serde_json::Error::line: one more than the line feeds among the consumed bytes
error_line(json, consumed) ==
    1 + Cardinality({k \in 1..Len(json) : json[k] = "LF" /\ byte_offset(json, k) < consumed})

\* serde_json::Error::column: the bytes consumed after the last of those line feeds
error_column(json, consumed) ==
    LET feeds == {k \in 1..Len(json) : json[k] = "LF" /\ byte_offset(json, k) < consumed}
    IN IF feeds = {} THEN consumed
       ELSE consumed - byte_offset(json, (CHOOSE k \in feeds : \A j \in feeds : j <= k) + 1)

\* A diagnostic string: the position it names and the context it quotes, if any
Diagnostic(line, column, has_context, context) ==
    [panicked |-> FALSE, line |-> line, column |-> column, has_context |-> has_context,
     context |-> context]

\* The slice index was not on a character boundary: the call does not return.
Panicked == [panicked |-> TRUE, line |-> 0, column |-> 0, has_context |-> FALSE,
             context |-> <<>>]

\* fn log_json_error
log_json_error(json, line, column) ==
    LET context_start == IF column - CONTEXT_RADIUS > 0 THEN column - CONTEXT_RADIUS ELSE 0
        context_end == IF str_len(json) < column + CONTEXT_RADIUS THEN str_len(json)
                       ELSE column + CONTEXT_RADIUS
    IN IF context_end > context_start
       THEN (IF is_char_boundary(json, context_start) /\ is_char_boundary(json, context_end)
             THEN Diagnostic(line, column, TRUE, byte_slice(json, context_start, context_end))
             ELSE Panicked)
       ELSE Diagnostic(line, column, TRUE, <<>>)

\* serde_json::Error::to_string: the message with line and column, no context
error_to_string(line, column) == Diagnostic(line, column, FALSE, <<>>)

-----------------------------------------------------------------------------
(* Payloads and results                                                    *)
(* A JSON payload is either malformed or carries the value it parses to.   *)
(* A malformed payload is its text and the number of bytes serde_json had  *)
(* consumed at the syntax error; of a well-formed payload only the value   *)
(* is kept.                                                                *)

MalformedAt(json, consumed) ==
    [wellformed |-> FALSE, data |-> <<>>, json |-> json, consumed |-> consumed]
Json(v) == [wellformed |-> TRUE, data |-> v, json |-> <<>>, consumed |-> 0]

\* The text "x": expected value at line 1 column 1
Malformed == MalformedAt(<<"x">>, 1)

\* Twenty one-byte characters and a three-byte one: expected value at line 1 column 1,
\* and byte 21 of the text is inside the last character
MalformedAcross == MalformedAt([k \in 1..CONTEXT_RADIUS |-> "x"] \o <<"U3042">>, 1)

Ok(idx, v) == [idx |-> idx, ok |-> TRUE, val |-> v]
Err(idx) == [idx |-> idx, ok |-> FALSE, val |-> "error"]

\* The call panicked: nothing is returned, and the index is as the statements before
\* the panic left it.
Panic(idx) == [idx |-> idx, ok |-> FALSE, val |-> "panic"]

\* Index::clear_index: the three maps cleared and the count reset
clear_index(idx) ==
    [idx EXCEPT !.postings = EmptyMap, !.doc_len = EmptyMap, !.doc_aliases = EmptyMap,
                !.n_docs = 0]

RECURSIVE add_documents_loop(_, _)
add_documents_loop(idx, emojis) ==
    IF emojis = <<>> THEN idx
    ELSE add_documents_loop(store_document(idx, Head(emojis).name, Head(emojis).aliases),
                            Tail(emojis))

\* if self.postings.is_empty() { postings, doc_len and doc_aliases are replaced by new
\* maps with reserved capacity }: n_docs is left as it is
preallocate(idx) ==
    IF DOMAIN idx.postings = {}
    THEN [idx EXCEPT !.postings = EmptyMap, !.doc_len = EmptyMap, !.doc_aliases = EmptyMap]
    ELSE idx

\* Index::add_documents: a parse error goes through log_json_error, which returns the
\* diagnostic or panics on its slice
add_documents(idx, json) ==
    IF ~json.wellformed
    THEN (IF log_json_error(json.json, error_line(json.json, json.consumed),
                            error_column(json.json, json.consumed)).panicked
          THEN Panic(idx)
          ELSE Err(idx))
    ELSE Ok(add_documents_loop(preallocate(idx), json.data), "unit")

\* Index::add_document
add_document(idx, name, aliases_json) ==
    IF ~aliases_json.wellformed THEN Err(idx)
    ELSE Ok(store_document(idx, name, aliases_json.data), "unit")

\* Index::remove_document
remove_document(idx, doc_id) ==
    IF doc_id \in DOMAIN idx.doc_len THEN Ok(remove_doc(idx, doc_id), TRUE)
    ELSE Ok(idx, FALSE)

\* The payload is validated before the name is looked up.
update_document_parse_first(idx, doc_id, aliases_json) ==
    IF ~aliases_json.wellformed THEN Err(idx)
    ELSE IF doc_id \notin DOMAIN idx.doc_len THEN Ok(idx, FALSE)
    ELSE Ok(add_document(remove_doc(idx, doc_id), doc_id, aliases_json).idx, TRUE)

\* The document is removed and not added again.
update_document_no_readd(idx, doc_id, aliases_json) ==
    IF doc_id \notin DOMAIN idx.doc_len THEN Ok(idx, FALSE)
    ELSE IF ~aliases_json.wellformed THEN Err(idx)
    ELSE Ok(remove_doc(idx, doc_id), TRUE)

\* Index::update_document
update_document(idx, doc_id, aliases_json) ==
    IF doc_id \notin DOMAIN idx.doc_len THEN Ok(idx, FALSE)
    ELSE IF ~aliases_json.wellformed THEN Err(idx)
    ELSE LET r == add_document(remove_doc(idx, doc_id), doc_id, aliases_json)
         IN IF r.ok THEN Ok(r.idx, TRUE) ELSE r

\* The index is not cleared before the documents are added.
replace_all_documents_no_clear(idx, json) == add_documents(idx, json)

\* Index::replace_all_documents: the same clearing as clear_index, then add_documents
replace_all_documents(idx, json) == add_documents(clear_index(idx), json)

-----------------------------------------------------------------------------
(* Search: query expansion                                                 *)

MATCH_NAME_EXACT == 32
MATCH_ALIAS_EXACT == 16
MATCH_NAME_PREFIX == 8
MATCH_ALIAS_PREFIX == 4
MATCH_NAME_PARTIAL == 2
MATCH_ALIAS_PARTIAL == 1

PRIORITY_NAME_EXACT == 100
PRIORITY_ALIAS_EXACT == 90
PRIORITY_NAME_PREFIX == 80
PRIORITY_ALIAS_PREFIX == 70
PRIORITY_NAME_PARTIAL == 60
PRIORITY_ALIAS_PARTIAL == 50

\* A match type is the set of the flag bits that are set in the u8.
calculate_priority(match_type) ==
    IF MATCH_NAME_EXACT \in match_type THEN PRIORITY_NAME_EXACT
    ELSE IF MATCH_ALIAS_EXACT \in match_type THEN PRIORITY_ALIAS_EXACT
    ELSE IF MATCH_NAME_PREFIX \in match_type THEN PRIORITY_NAME_PREFIX
    ELSE IF MATCH_ALIAS_PREFIX \in match_type THEN PRIORITY_ALIAS_PREFIX
    ELSE IF MATCH_NAME_PARTIAL \in match_type THEN PRIORITY_NAME_PARTIAL
    ELSE IF MATCH_ALIAS_PARTIAL \in match_type THEN PRIORITY_ALIAS_PARTIAL
    ELSE 0

\* limit: Option<usize>; None is written -1
None == -1
DEFAULT_LIMIT == 10
unwrap_or(limit, default) == IF limit = None THEN default ELSE limit

HIRAGANA_TERM_BYTES == 50
BIGRAM_TERM_BYTES == 100

\* for token in tokens { if seen_tokens.insert(token) { expanded_2gram.push(token) } }
RECURSIVE push_unseen(_, _)
push_unseen(e, tokens) ==
    IF tokens = <<>> THEN e
    ELSE IF Head(tokens) \in e.seen THEN push_unseen(e, Tail(tokens))
    ELSE push_unseen([expanded |-> Append(e.expanded, Head(tokens)),
                      seen     |-> e.seen \cup {Head(tokens)}],
                     Tail(tokens))

\* The body of the loop over the original terms: the term itself, its hiragana
\* form with that form's tokens, and the term's own tokens.
expand_term(e, term) ==
    LET e1 == [expanded |-> Append(e.expanded, term), seen |-> e.seen \cup {term}]
        hira == to_hiragana(to_lowercase(term))
        e2 == IF /\ str_len(term) < HIRAGANA_TERM_BYTES
                 /\ \A k \in 1..Len(term) : is_ascii_alphabetic(term[k])
                 /\ hira # term
              THEN push_unseen([expanded |-> Append(e1.expanded, hira),
                                seen     |-> e1.seen \cup {hira}],
                               tokenize_2gram(hira))
              ELSE e1
    IN IF str_len(term) < BIGRAM_TERM_BYTES THEN push_unseen(e2, tokenize_2gram(term))
       ELSE e2

RECURSIVE expand_terms(_, _)
expand_terms(e, original) ==
    IF original = <<>> THEN e
    ELSE expand_terms(expand_term(e, Head(original)), Tail(original))

\* expanded_2gram.sort_by(|a, b| b.len().cmp(&a.len())): stable, longest (in bytes) first
RECURSIVE sort_by_len_desc(_)
sort_by_len_desc(s) ==
    IF s = <<>> THEN <<>>
    ELSE LET x == s[Len(s)]
             sorted == sort_by_len_desc(SubSeq(s, 1, Len(s) - 1))
         IN SelectSeq(sorted, LAMBDA t : str_len(t) >= str_len(x))
            \o <<x>>
            \o SelectSeq(sorted, LAMBDA t : str_len(t) < str_len(x))

\* The expanded token list in the order in which search consults the postings.
expanded_2gram(original) ==
    sort_by_len_desc(expand_terms([expanded |-> <<>>, seen |-> {}], original).expanded)

-----------------------------------------------------------------------------
(* Search: scoring                                                         *)
(* Scores are in units of 10^-5.                                           *)

SCORE_UNIT == 10^5
EXACT_MATCH_BONUS == 10
CONTAINMENT_BONUS == 5
EARLY_EXIT_FACTOR == 10
MATCH_TERM_BYTES == 50

\* ln((N - df + 0.5)/(df + 0.5) + 1) in units of 10^-5, row N + 1, column df
IdfTable ==
    << <<-40547, -91629, -125276, -150408, -170475, -187180>>,
       <<28768, -22314, -55962, -81093, -101160, -117865>>,
       <<69315, 18232, -15415, -40547, -60614, -77319>>,
       <<98083, 47000, 13353, -11778, -31845, -48551>>,
       <<120397, 69315, 35667, 10536, -9531, -26236>>,
       <<138629, 87547, 53900, 28768, 8701, -8004>>,
       <<154045, 102962, 69315, 44183, 24116, 7411>> >>

\* ((n_docs - df + 0.5)/(df + 0.5) + 1.0).ln(); tabulated for up to six documents
idf_of(n, df) ==
    IF n + 1 \in DOMAIN IdfTable /\ df \in DOMAIN IdfTable[n + 1] THEN IdfTable[n + 1][df]
    ELSE 0

RECURSIVE sum_values(_, _)
sum_values(m, keys) ==
    IF keys = {} THEN 0
    ELSE LET k == CHOOSE x \in keys : TRUE IN m[k] + sum_values(m, keys \ {k})

\* idf * (tf*(k1+1)) / (tf + k1*(1 - b + b*len/avg_len)) with avg_len = sum_len/n_docs,
\* numerator and denominator multiplied by 10 * sum_len
bm25(k1_x10, b_x100, idf, tf, len, sum_len, n) ==
    (idf * tf * (k1_x10 + 10) * sum_len)
    \div (10 * tf * sum_len
          + (k1_x10 * (100 - b_x100) * sum_len + k1_x10 * b_x100 * len * n) \div 100)

\* fn token_is_from_original_query
token_is_from_original_query(token, original_terms) ==
    \/ token \in original_terms
    \/ \E o \in original_terms : starts_with(o, token)

map_get_or(m, key, default) == IF key \in DOMAIN m THEN m[key] ELSE default

\* The name tests run before the verbatim-term test.
match_flag_name_first(original_terms, term, doc_id) ==
    IF str_len(term) <= MATCH_TERM_BYTES /\ starts_with(doc_id, term) /\ term # doc_id
    THEN {MATCH_NAME_PREFIX}
    ELSE IF term \in original_terms
         THEN (IF term = doc_id THEN {MATCH_NAME_EXACT} ELSE {MATCH_ALIAS_EXACT})
    ELSE IF str_len(term) <= MATCH_TERM_BYTES /\ contains(doc_id, term)
         THEN {MATCH_NAME_PARTIAL}
    ELSE IF token_is_from_original_query(term, original_terms) THEN {MATCH_ALIAS_PREFIX}
    ELSE IF str_len(term) <= 2 THEN {MATCH_ALIAS_PARTIAL}
    ELSE {}

\* The flag a visit sets for doc_id under term (no flag when the visit marks nothing).
match_flag(original_terms, term, doc_id) ==
    IF term \in original_terms
    THEN (IF term = doc_id THEN {MATCH_NAME_EXACT} ELSE {MATCH_ALIAS_EXACT})
    ELSE IF str_len(term) <= MATCH_TERM_BYTES /\ starts_with(doc_id, term)
         THEN {MATCH_NAME_PREFIX}
    ELSE IF str_len(term) <= MATCH_TERM_BYTES /\ contains(doc_id, term)
         THEN {MATCH_NAME_PARTIAL}
    ELSE IF token_is_from_original_query(term, original_terms) THEN {MATCH_ALIAS_PREFIX}
    ELSE IF str_len(term) <= 2 THEN {MATCH_ALIAS_PARTIAL}
    ELSE {}

\* One pass of the body of `for doc_id in list` after the budget test.
visit(idx, original, term, doc_id, df, st) ==
    LET original_terms == {original[k] : k \in 1..Len(original)}
        tf == IF term \in original_terms THEN 2 ELSE 1
        len == map_get_or(idx.doc_len, doc_id, 1)
        score == bm25(idx.k1, idx.b, idf_of(idx.n_docs, df), tf, len,
                      sum_values(idx.doc_len, DOMAIN idx.doc_len), idx.n_docs)
        exact_match_bonus ==
            IF \E k \in 1..Len(original) : original[k] = doc_id
            THEN EXACT_MATCH_BONUS * SCORE_UNIT ELSE 0
        contains_full_query ==
            \E k \in 1..Len(original) :
                \/ contains(doc_id, original[k])
                \/ /\ doc_id \in DOMAIN idx.doc_aliases
                   /\ \E j \in 1..Len(idx.doc_aliases[doc_id]) :
                          contains(idx.doc_aliases[doc_id][j], original[k])
        containment_bonus == IF contains_full_query THEN CONTAINMENT_BONUS * SCORE_UNIT ELSE 0
    IN [doc_count   |-> st.doc_count + 1,
        scores      |-> map_insert(st.scores, doc_id,
                            map_get_or(st.scores, doc_id, 0)
                            + score + exact_match_bonus + containment_bonus),
        match_types |-> map_insert(st.match_types, doc_id,
                            map_get_or(st.match_types, doc_id, {})
                            \cup match_flag(original_terms, term, doc_id))]

\* The budget test ignored: every entry of every posting list is visited.
budget_spent_never(st, result_limit) == FALSE

\* doc_count > early_exit_threshold && scores.len() >= result_limit * 2
budget_spent(st, result_limit) ==
    /\ st.doc_count > result_limit * EARLY_EXIT_FACTOR
    /\ Cardinality(DOMAIN st.scores) >= result_limit * 2

\* for doc_id in list { if budget spent { break; } ... }
RECURSIVE scan_list(_, _, _, _, _, _, _)
scan_list(idx, original, term, list, k, result_limit, st) ==
    IF k > Len(list) THEN st
    ELSE IF budget_spent(st, result_limit) THEN st
    ELSE scan_list(idx, original, term, list, k + 1, result_limit,
                   visit(idx, original, term, list[k], Len(list), st))

\* for term in &expanded_2gram { if let Some(list) = self.postings.get(term) { ... } }
RECURSIVE scan_terms(_, _, _, _, _)
scan_terms(idx, original, terms, result_limit, st) ==
    IF terms = <<>> THEN st
    ELSE IF Head(terms) \notin DOMAIN idx.postings
         THEN scan_terms(idx, original, Tail(terms), result_limit, st)
    ELSE scan_terms(idx, original, Tail(terms), result_limit,
                    scan_list(idx, original, Head(terms), idx.postings[Head(terms)],
                              1, result_limit, st))

\* scores and match_types after the scoring loop
scored(idx, original, result_limit) ==
    scan_terms(idx, original, expanded_2gram(original), result_limit,
               [doc_count |-> 0, scores |-> EmptyMap, match_types |-> EmptyMap])

-----------------------------------------------------------------------------
(* Search: top-K selection                                                 *)
(* The iteration order of the scores map is unspecified; it decides only    *)
(* the order of candidates that tie on priority and score, and which of     *)
(* them the bounded heap evicts.  Both are left open: a search has a set of *)
(* possible result lists.                                                   *)

HEAP_LIMIT == 100

priority_of(st, d) == calculate_priority(map_get_or(st.match_types, d, {}))

\* d ranks strictly below e: lower priority, or the same priority and a lower score
ranks_below(st, d, e) ==
    \/ priority_of(st, d) < priority_of(st, e)
    \/ priority_of(st, d) = priority_of(st, e) /\ st.scores[d] < st.scores[e]

\* The orders of the documents of cands that put no document before a better one.
RECURSIVE ranked_orders(_, _)
ranked_orders(st, cands) ==
    IF cands = {} THEN {<<>>}
    ELSE UNION { {<<d>> \o rest : rest \in ranked_orders(st, cands \ {d})} :
                 d \in {x \in cands : \A y \in cands : ~ranks_below(st, x, y)} }

take(s, n) == SubSeq(s, 1, IF n < Len(s) THEN n ELSE Len(s))

\* score.to_bits() compared as u32: the bit patterns of the non-negative scores rise
\* with the score; a negative score has the sign bit set, so its pattern is above that
\* of every non-negative score, and among negative scores it rises with the magnitude.
score_bits_less(x, y) ==
    IF x >= 0 /\ y >= 0 THEN x < y
    ELSE IF x < 0 /\ y < 0 THEN y < x
    ELSE x >= 0

\* ScoredDoc::cmp(d, e) == Less: priority, then score_bits
scored_doc_less(st, d, e) ==
    \/ priority_of(st, d) < priority_of(st, e)
    \/ priority_of(st, d) = priority_of(st, e) /\ score_bits_less(st.scores[d], st.scores[e])

\* while let Some(Reverse(doc)) = top_docs.pop() { ranked.push(..) }; ranked.reverse():
\* the orders of the documents of the heap that put no document before a greater one.
RECURSIVE drain_orders(_, _)
drain_orders(st, cands) ==
    IF cands = {} THEN {<<>>}
    ELSE UNION { {<<d>> \o rest : rest \in drain_orders(st, cands \ {d})} :
                 d \in {x \in cands : \A y \in cands : ~scored_doc_less(st, x, y)} }

\* top_docs.push(Reverse(doc)); if top_docs.len() > result_limit { top_docs.pop(); }
\* for each candidate: the sets of documents the heap can hold afterwards.
RECURSIVE heap_fill(_, _, _, _)
heap_fill(st, heaps, todo, result_limit) ==
    IF todo = {} THEN heaps
    ELSE LET d == CHOOSE x \in todo : TRUE
             pushed(h) == h \cup {d}
             popped(h) == IF Cardinality(pushed(h)) > result_limit
                          THEN {pushed(h) \ {m} :
                                  m \in {x \in pushed(h) :
                                           \A y \in pushed(h) : ~scored_doc_less(st, y, x)}}
                          ELSE {pushed(h)}
         IN heap_fill(st, UNION {popped(h) : h \in heaps}, todo \ {d}, result_limit)

\* The heap path: the heap is drained worst first and the list reversed.
heap_path(st, result_limit) ==
    UNION {drain_orders(st, h) : h \in heap_fill(st, {{}}, DOMAIN st.scores, result_limit)}

\* The sorted list is returned whole.
sort_path_untruncated(st, result_limit) == ranked_orders(st, DOMAIN st.scores)

\* The sort path: results.sort_by(priority desc, score desc), then take(result_limit).
sort_path(st, result_limit) ==
    {take(o, result_limit) : o \in ranked_orders(st, DOMAIN st.scores)}

\* The ranked lists the selection can return for the scored candidates.
select_top(st, result_limit) ==
    IF Cardinality(DOMAIN st.scores) > result_limit * 2 /\ result_limit < HEAP_LIMIT
    THEN heap_path(st, result_limit)
    ELSE sort_path(st, result_limit)

SearchOutcome(ok, val, st) ==
    [ok |-> ok, val |-> val, scores |-> st.scores, match_types |-> st.match_types,
     doc_count |-> st.doc_count]

NothingScored == [doc_count |-> 0, scores |-> EmptyMap, match_types |-> EmptyMap]

\* An empty store answers with an error instead of the empty list.
search_empty_is_error(idx, query_json, limit) ==
    IF ~query_json.wellformed \/ idx.n_docs = 0 THEN {SearchOutcome(FALSE, "error", NothingScored)}
    ELSE LET st == scored(idx, query_json.data, unwrap_or(limit, DEFAULT_LIMIT))
         IN {SearchOutcome(TRUE, r, st) : r \in select_top(st, unwrap_or(limit, DEFAULT_LIMIT))}

\* Index::search: the set of outcomes it can return
search(idx, query_json, limit) ==
    IF ~query_json.wellformed THEN {SearchOutcome(FALSE, "error", NothingScored)}
    ELSE IF idx.n_docs = 0 THEN {SearchOutcome(TRUE, <<>>, NothingScored)}
    ELSE LET st == scored(idx, query_json.data, unwrap_or(limit, DEFAULT_LIMIT))
         IN {SearchOutcome(TRUE, r, st) : r \in select_top(st, unwrap_or(limit, DEFAULT_LIMIT))}

-----------------------------------------------------------------------------
(* Persistence                                                             *)
(* bincode writes the fields of struct Index in declaration order, without  *)
(* names: a map as its entries in iteration order, each a key and a value.  *)
(* The buffer is the sequence of the encoded fields.                        *)

\* The orders in which a HashMap with these keys can be iterated.  The order depends on
\* the hasher, the capacity and the history of the map, not on its content alone.
RECURSIVE iter_orders(_)
iter_orders(keys) ==
    IF keys = {} THEN {<<>>}
    ELSE UNION { {<<d>> \o rest : rest \in iter_orders(keys \ {d})} : d \in keys }

\* Serialize for HashMap: the entries in the order the map is iterated in, each a
\* <<key, value>> pair
encode_map(m, order) == [i \in 1..Len(order) |-> <<order[i], m[order[i]]>>]

\* Deserialize for HashMap: the pairs inserted one after the other, so that the last
\* pair with a key gives its value
decode_map(pairs) ==
    [k \in {pairs[i][1] : i \in 1..Len(pairs)} |->
        pairs[CHOOSE i \in 1..Len(pairs) :
                  /\ pairs[i][1] = k
                  /\ \A j \in (i + 1)..Len(pairs) : pairs[j][1] # k][2]]

\* The number of fields of struct Index
INDEX_FIELDS == 6

\* Index::dump: bincode::serialize(self), the three maps iterated in the given orders
dump(idx, postings_order, doc_len_order, doc_aliases_order) ==
    <<encode_map(idx.postings, postings_order), encode_map(idx.doc_len, doc_len_order),
      encode_map(idx.doc_aliases, doc_aliases_order), idx.n_docs, idx.k1, idx.b>>

\* The posting lists are not restored from the buffer.
load_without_postings(idx, bytes) ==
    IF Len(bytes) # INDEX_FIELDS THEN Err(idx)
    ELSE Ok([postings    |-> EmptyMap,
             doc_len     |-> decode_map(bytes[2]),
             doc_aliases |-> decode_map(bytes[3]),
             n_docs      |-> bytes[4],
             k1          |-> bytes[5],
             b           |-> bytes[6]], "index")

\* Index::load: bincode::deserialize(bytes); idx is the index the caller holds, which
\* the loaded one replaces when the buffer decodes.
load(idx, bytes) ==
    IF Len(bytes) # INDEX_FIELDS THEN Err(idx)
    ELSE Ok([postings    |-> decode_map(bytes[1]),
             doc_len     |-> decode_map(bytes[2]),
             doc_aliases |-> decode_map(bytes[3]),
             n_docs      |-> bytes[4],
             k1          |-> bytes[5],
             b           |-> bytes[6]], "index")

-----------------------------------------------------------------------------
(* Inputs                                                                  *)

\* The number of characters of the long document name (three bytes each)
LongNameChars == 17
\* Explicit limits passed to search range over 0..MaxLimit
MaxLimit == 2
\* dump is called on indexes of up to MaxDumpedTokens posting lists
MaxDumpedTokens == 3

sA == <<"a">>
sIA == <<"i", "a">>
sAI == <<"a", "i">>
sAIIA == <<"a", "i", "i", "a">>
hAIIA == <<"U3042", "U3044", "U3044", "U3042">>
sLong == [k \in 1..LongNameChars |-> "U3042"]
sEmpty == <<>>

Names == {sA, sAI, sAIIA, sLong}

AliasLists == {<<>>, <<hAIIA>>, <<sA, sAI, sEmpty, sA>>}

Doc(name, aliases) == [name |-> name, aliases |-> aliases]

Batches ==
    { <<Doc(sA, <<hAIIA>>), Doc(sAI, <<hAIIA>>), Doc(sLong, <<hAIIA>>), Doc(sAIIA, <<>>)>>,
      <<Doc(sA, <<>>), Doc(sAI, <<sA>>), Doc(sA, <<sA, sAI, sEmpty, sA>>)>>,
      <<Doc(sAI, <<>>), Doc(sA, <<sAI>>), Doc(sAIIA, <<>>), Doc(sLong, <<hAIIA>>),
        Doc(sIA, <<sAIIA>>)>> }

AliasPayloads == {Malformed} \cup {Json(a) : a \in AliasLists}
BatchPayloads == {Malformed, MalformedAcross} \cup {Json(batch) : batch \in Batches}

Queries == {<<>>, <<sEmpty>>, <<sA>>, <<sAI>>, <<sAIIA>>, <<hAIIA>>, <<sLong>>, <<sAI, sA>>,
            <<sA, sA>>}
QueryPayloads == {Malformed} \cup {Json(q) : q \in Queries}
Limits == {None} \cup 0..MaxLimit

-----------------------------------------------------------------------------
(* The state machine                                                       *)

Index == [postings |-> postings, doc_len |-> doc_len, doc_aliases |-> doc_aliases,
          n_docs |-> n_docs, k1 |-> k1, b |-> b]

\* The call the caller is looking at: its name, arguments and returned value.
Ret(op, name, payload, limit, ok, val, scores, match_types) ==
    [op |-> op, name |-> name, payload |-> payload, limit |-> limit, ok |-> ok, val |-> val,
     scores |-> scores, match_types |-> match_types]

\* No call has returned since the caller took the last result.
Idle == Ret("idle", <<>>, Malformed, None, TRUE, "unit", EmptyMap, EmptyMap)

Becomes(idx) ==
    /\ postings' = idx.postings
    /\ doc_len' = idx.doc_len
    /\ doc_aliases' = idx.doc_aliases
    /\ n_docs' = idx.n_docs
    /\ k1' = idx.k1
    /\ b' = idx.b
    /\ UNCHANGED cache

\* Index::new
Init ==
    /\ postings = new.postings
    /\ doc_len = new.doc_len
    /\ doc_aliases = new.doc_aliases
    /\ n_docs = new.n_docs
    /\ k1 = new.k1
    /\ b = new.b
    /\ cache = StringCache_new
    /\ ret = Idle

\* What a mutating call that returned r leaves for the caller.
Returned(op, name, payload, r) ==
    Ret(op, name, payload, None, r.ok, r.val, EmptyMap, EmptyMap)

AddDocuments ==
    \E json \in BatchPayloads :
        /\ ret.op = "idle"
        /\ Becomes(add_documents(Index, json).idx)
        /\ ret' = Returned("add_documents", <<>>, json, add_documents(Index, json))

AddDocument ==
    \E name \in Names, json \in AliasPayloads :
        /\ ret.op = "idle"
        /\ Becomes(add_document(Index, name, json).idx)
        /\ ret' = Returned("add_document", name, json, add_document(Index, name, json))

UpdateDocument ==
    \E name \in Names, json \in AliasPayloads :
        /\ ret.op = "idle"
        /\ Becomes(update_document(Index, name, json).idx)
        /\ ret' = Returned("update_document", name, json, update_document(Index, name, json))

RemoveDocument ==
    \E name \in Names :
        /\ ret.op = "idle"
        /\ Becomes(remove_document(Index, name).idx)
        /\ ret' = Returned("remove_document", name, Malformed, remove_document(Index, name))

ReplaceAllDocuments ==
    \E json \in BatchPayloads :
        /\ ret.op = "idle"
        /\ Becomes(replace_all_documents(Index, json).idx)
        /\ ret' = Returned("replace_all_documents", <<>>, json,
                           replace_all_documents(Index, json))

\* The ranking parameters a caller sets: the defaults, and k1 = -1.9 with b = 0, under
\* which the BM25 term of a verbatim query term (tf = 2) is about -18 * idf.
ParamChoices == {<<K1_X10, B_X100>>, <<-19, 0>>}

\* Index::set_params stores any k1 and b.
SetParams ==
    \E choice \in ParamChoices :
        /\ ret.op = "idle"
        /\ Becomes(set_params(Index, choice[1], choice[2]))
        /\ ret' = Returned("set_params", <<>>, Json(choice),
                           Ok(set_params(Index, choice[1], choice[2]), "unit"))

ClearIndex ==
    /\ ret.op = "idle"
    /\ Becomes(clear_index(Index))
    /\ ret' = Returned("clear_index", <<>>, Malformed, Ok(clear_index(Index), "unit"))

Search ==
    /\ ret.op = "idle"
    /\ \E json \in QueryPayloads, limit \in Limits :
        \E r \in search(Index, json, limit) :
            /\ UNCHANGED <<postings, doc_len, doc_aliases, n_docs, k1, b, cache>>
            /\ ret' = Ret("search", <<>>, json, limit, r.ok, r.val, r.scores, r.match_types)

\* Each of the three maps is written in any of its iteration orders.  Indexes of up to
\* MaxDumpedTokens posting lists are dumped.
Dump ==
    /\ ret.op = "idle"
    /\ Cardinality(DOMAIN postings) <= MaxDumpedTokens
    /\ \E postings_order \in iter_orders(DOMAIN postings),
          doc_len_order \in iter_orders(DOMAIN doc_len),
          doc_aliases_order \in iter_orders(DOMAIN doc_aliases) :
           ret' = Ret("dump", <<>>, Malformed, None, TRUE,
                      dump(Index, postings_order, doc_len_order, doc_aliases_order),
                      EmptyMap, EmptyMap)
    /\ UNCHANGED <<postings, doc_len, doc_aliases, n_docs, k1, b, cache>>

\* The caller loads the buffer dump has just returned, or a buffer cut short.
Load ==
    /\ ret.op = "dump"
    /\ \E bytes \in {ret.val, SubSeq(ret.val, 1, Len(ret.val) - 1)} :
           /\ Becomes(load(Index, bytes).idx)
           /\ ret' = Ret("load", <<>>, Json(bytes), None, load(Index, bytes).ok,
                         load(Index, bytes).val, EmptyMap, EmptyMap)

\* The caller takes the returned value; the next call can start.
TakeResult ==
    /\ ret.op # "idle"
    /\ ret' = Idle
    /\ UNCHANGED <<postings, doc_len, doc_aliases, n_docs, k1, b, cache>>

Next ==
    \/ SetParams
    \/ AddDocuments
    \/ AddDocument
    \/ UpdateDocument
    \/ RemoveDocument
    \/ ReplaceAllDocuments
    \/ ClearIndex
    \/ Search
    \/ Dump
    \/ Load
    \/ TakeResult

Spec == Init /\ [][Next]_vars

-----------------------------------------------------------------------------
(* The tokenizer on its own: every text of up to MaxTextLen characters     *)

MaxTextLen == 4
TokChars == {"a", "b", "c", "U3042"}
Texts == UNION {[1..n -> TokChars] : n \in 0..MaxTextLen}

TokenizerInit == Init

Tokenize ==
    /\ \E text \in Texts :
           ret' = Ret("tokenize_2gram", text, Malformed, None, TRUE, tokenize_2gram(text),
                      EmptyMap, EmptyMap)
    /\ UNCHANGED <<postings, doc_len, doc_aliases, n_docs, k1, b, cache>>

TokenizerNext == Tokenize

TokenizerSpec == TokenizerInit /\ [][TokenizerNext]_vars

-----------------------------------------------------------------------------
(* The substring-scan engine (crate/src/search.rs, crate/src/cache.rs)      *)
(* SearchEngine borrows a name -> aliases map and a StringCache.  A cache    *)
(* entry is computed from its key when first asked for and never changed,    *)
(* so a lookup returns what the conversion returns.                          *)

\* char::is_ascii
is_ascii(c) == c \notin HiraganaChars

\* Option<Arc<String>>
NoHiragana == [some |-> FALSE, text |-> <<>>]
SomeHiragana(h) == [some |-> TRUE, text |-> h]

\* StringCache::get_lowercase
get_lowercase(text) == to_lowercase(text)

\* StringCache::get_hiragana
get_hiragana(text) ==
    IF \A k \in 1..Len(text) : is_ascii(text[k])
    THEN SomeHiragana(to_hiragana(to_lowercase(text)))
    ELSE NoHiragana

\* lower.contains(keyword) || hiragana.map_or(false, |h| h.contains(&keyword.to_hiragana()))
text_has_keyword(text, keyword) ==
    \/ contains(get_lowercase(text), keyword)
    \/ /\ get_hiragana(text).some
       /\ contains(get_hiragana(text).text, to_hiragana(keyword))

\* The test of the first pass: every keyword is in the name.
name_has_all(doc_name, keywords) ==
    \A k \in 1..Len(keywords) : text_has_keyword(doc_name, keywords[k])

\* One alias has to contain every keyword the name does not.
doc_has_all_single_alias(doc_name, aliases, keywords) ==
    \/ name_has_all(doc_name, keywords)
    \/ \E j \in 1..Len(aliases) :
           \A k \in 1..Len(keywords) :
               \/ text_has_keyword(doc_name, keywords[k])
               \/ text_has_keyword(aliases[j], keywords[k])

\* The test of the second pass: every keyword is in the name or in an alias.
doc_has_all(doc_name, aliases, keywords) ==
    \A k \in 1..Len(keywords) :
        \/ text_has_keyword(doc_name, keywords[k])
        \/ \E j \in 1..Len(aliases) : text_has_keyword(aliases[j], keywords[k])

\* One pass of search_and over the documents in iteration order; returned is set
\* by `if matches.len() >= limit { return ... }`, which is tested after a push only.
RECURSIVE and_pass(_, _, _, _, _, _)
and_pass(store, order, keywords, limit, pass, st) ==
    IF st.returned \/ order = <<>> THEN st
    ELSE LET doc_name == Head(order)
             hit == IF pass = 1 THEN name_has_all(doc_name, keywords)
                    ELSE /\ doc_name \notin st.seen
                         /\ doc_has_all(doc_name, store[doc_name], keywords)
             st1 == IF hit /\ doc_name \notin st.seen
                    THEN [matches  |-> Append(st.matches, doc_name),
                          seen     |-> st.seen \cup {doc_name},
                          returned |-> Len(st.matches) + 1 >= limit]
                    ELSE st
         IN and_pass(store, Tail(order), keywords, limit, pass, st1)

\* The alias pass runs before the name pass.
search_and_in_aliases_first(store, order, keywords, limit) ==
    and_pass(store, order, keywords, limit, 1,
             and_pass(store, order, keywords, limit, 2,
                      [matches |-> <<>>, seen |-> {}, returned |-> FALSE])).matches

\* SearchEngine::search_and when the store is iterated in the given order
search_and_in(store, order, keywords, limit) ==
    and_pass(store, order, keywords, limit, 2,
             and_pass(store, order, keywords, limit, 1,
                      [matches |-> <<>>, seen |-> {}, returned |-> FALSE])).matches

\* SearchEngine::search_and: the lists it can return
search_and(store, keywords, limit) ==
    {search_and_in(store, order, keywords, limit) : order \in iter_orders(DOMAIN store)}

\* enum MatchPriority; NoPriority stands for the None of Option<MatchPriority>
NoPriority == 0
NameExact == 1
AliasExact == 2
NamePrefix == 3
AliasPrefix == 4
NamePartial == 5
AliasPartial == 6

\* best_priority.map_or(true, |p| p > class)
worse_than(best, class) == best = NoPriority \/ best > class

\* The body of `for alias in aliases` on the normalized forms of the alias
alias_class(best, alias_lower, alias_hiragana, query) ==
    LET query_hiragana == to_hiragana(query)
    IN IF alias_lower = query /\ worse_than(best, AliasExact) THEN AliasExact
       ELSE IF alias_lower = query_hiragana /\ worse_than(best, AliasExact) THEN AliasExact
       ELSE IF /\ starts_with(alias_lower, query) \/ starts_with(alias_lower, query_hiragana)
               /\ worse_than(best, AliasPrefix)
            THEN AliasPrefix
       ELSE IF best = NoPriority \/ best >= AliasPartial
            THEN (IF \/ contains(alias_lower, query)
                     \/ contains(alias_lower, query_hiragana)
                     \/ /\ alias_hiragana.some
                        /\ contains(alias_hiragana.text, to_hiragana(query))
                  THEN AliasPartial ELSE best)
       ELSE best

\* The body of `for alias in aliases`: best_priority after the alias
alias_step(best, alias, query) ==
    alias_class(best, get_lowercase(alias), get_hiragana(alias), query)

RECURSIVE alias_loop(_, _, _)
alias_loop(best, aliases, query) ==
    IF aliases = <<>> THEN best
    ELSE alias_loop(alias_step(best, Head(aliases), query), Tail(aliases), query)

\* The tests of the body of `for query in queries` that look at the name, on its
\* normalized forms: best_priority after them, and whether the loop was left by `break`
name_class(best, doc_lower, doc_hiragana, query) ==
    LET query_hiragana == to_hiragana(query)
        after_prefix ==
            IF /\ worse_than(best, NamePrefix)
               /\ starts_with(doc_lower, query) \/ starts_with(doc_lower, query_hiragana)
            THEN NamePrefix ELSE best
        after_partial ==
            IF /\ worse_than(after_prefix, NamePartial)
               /\ \/ contains(doc_lower, query)
                  \/ contains(doc_lower, query_hiragana)
                  \/ /\ doc_hiragana.some
                     /\ contains(doc_hiragana.text, to_hiragana(query))
            THEN NamePartial ELSE after_prefix
    IN IF doc_lower = query \/ doc_lower = query_hiragana
       THEN [best |-> NameExact, broke |-> TRUE]
       ELSE [best |-> after_partial, broke |-> FALSE]

\* The body of `for query in queries`
query_step(best, doc_name, aliases, query) ==
    LET named == name_class(best, get_lowercase(doc_name), get_hiragana(doc_name), query)
    IN IF named.broke \/ named.best = NameExact THEN named
       ELSE [best |-> alias_loop(named.best, aliases, query), broke |-> FALSE]

RECURSIVE query_loop(_, _, _, _)
query_loop(best, doc_name, aliases, queries) ==
    IF queries = <<>> THEN best
    ELSE IF query_step(best, doc_name, aliases, Head(queries)).broke
         THEN query_step(best, doc_name, aliases, Head(queries)).best
    ELSE query_loop(query_step(best, doc_name, aliases, Head(queries)).best,
                    doc_name, aliases, Tail(queries))

\* best_priority of a document after the loop over the queries
best_priority(doc_name, aliases, queries) ==
    query_loop(NoPriority, doc_name, aliases, queries)

\* for (doc_name, aliases) in self.doc_aliases.iter(): the candidates collected, the
\* loop being left once there are limit * 2 of them (tested after a push)
RECURSIVE collect_candidates(_, _, _, _, _)
collect_candidates(store, order, queries, limit, candidates) ==
    IF order = <<>> THEN candidates
    ELSE IF best_priority(Head(order), store[Head(order)], queries) = NoPriority
         THEN collect_candidates(store, Tail(order), queries, limit, candidates)
    ELSE IF Len(candidates) + 1 >= limit * 2
         THEN Append(candidates,
                     [priority |-> best_priority(Head(order), store[Head(order)], queries),
                      name     |-> Head(order)])
    ELSE collect_candidates(store, Tail(order), queries, limit,
             Append(candidates,
                    [priority |-> best_priority(Head(order), store[Head(order)], queries),
                     name     |-> Head(order)]))

\* candidates.sort_by_key(|(p, _)| *p): a stable sort by priority
RECURSIVE sort_by_key(_, _)
sort_by_key(candidates, class) ==
    IF class > AliasPartial THEN <<>>
    ELSE SelectSeq(candidates, LAMBDA c : c.priority = class)
         \o sort_by_key(candidates, class + 1)

\* candidates.into_iter().take(limit).map(|(_, name)| name).collect()
take_names(sorted, limit) ==
    [k \in 1..(IF limit < Len(sorted) THEN limit ELSE Len(sorted)) |-> sorted[k].name]

\* SearchEngine::search_unified when the store is iterated in the given order
search_unified_in(store, order, queries, limit) ==
    take_names(sort_by_key(collect_candidates(store, order, queries, limit, <<>>), NameExact),
               limit)

\* SearchEngine::search_unified: the lists it can return
search_unified(store, queries, limit) ==
    {search_unified_in(store, order, queries, limit) : order \in iter_orders(DOMAIN store)}

sBigAI == <<"A", "i">>

EngineNames == {sA, sAI, sBigAI, hAIIA}

\* Three collections of documents over the four names: without aliases, and with
\* aliases that match keywords their names do not
EngineCollections ==
    { [name \in EngineNames |-> <<>>],
      (sA :> <<sAIIA>>) @@ (sAI :> <<hAIIA, sA>>) @@ (sBigAI :> <<hAIIA, sIA>>)
          @@ (hAIIA :> <<sAIIA>>),
      (sA :> <<hAIIA, sA>>) @@ (sAI :> <<sAIIA>>) @@ (sBigAI :> <<>>)
          @@ (hAIIA :> <<hAIIA, sIA>>) }

\* The stores the engine is handed: the documents of a collection under some of the names
Stores == {[name \in S |-> all[name]] : all \in EngineCollections, S \in SUBSET EngineNames}

KeywordLists == {<<>>, <<sEmpty>>, <<sA>>, <<sAI>>, <<sIA, sA>>, <<hAIIA>>, <<hAIIA, sIA>>}

\* The engine holds a store; the token index of struct Index is not part of it.
EngineInit ==
    /\ postings = EmptyMap
    /\ doc_len = EmptyMap
    /\ doc_aliases \in Stores
    /\ n_docs = 0
    /\ k1 = new.k1
    /\ b = new.b
    /\ cache = StringCache_new
    /\ ret = Idle

-----------------------------------------------------------------------------
(* The engine reading through its StringCache (crate/src/cache.rs)          *)
(* A search asks the cache for the normalized forms of the names and the    *)
(* aliases it looks at; the cache returns the entry it holds, and computes  *)
(* and stores one when it holds none.                                       *)

CacheResult(c, value) == [cache |-> c, value |-> value]

\* The transliteration is stored in, and read from, the lowercase cache.
get_hiragana_in_lowercase_cache(c, text) ==
    IF \A k \in 1..Len(text) : is_ascii(text[k])
    THEN (IF text \in DOMAIN c.lowercase_cache
          THEN CacheResult(c, SomeHiragana(c.lowercase_cache[text]))
          ELSE CacheResult([c EXCEPT !.lowercase_cache =
                                map_insert(@, text, to_hiragana(to_lowercase(text)))],
                           SomeHiragana(to_hiragana(to_lowercase(text)))))
    ELSE CacheResult(c, NoHiragana)

\* StringCache::get_lowercase: entry(text).or_insert_with(|| text.to_lowercase()).clone()
cached_lowercase(c, text) ==
    IF text \in DOMAIN c.lowercase_cache THEN CacheResult(c, c.lowercase_cache[text])
    ELSE CacheResult([c EXCEPT !.lowercase_cache = map_insert(@, text, to_lowercase(text))],
                     to_lowercase(text))

\* StringCache::get_hiragana: Some(entry(text).or_insert_with(..)) for an all-ASCII text
cached_hiragana(c, text) ==
    IF \A k \in 1..Len(text) : is_ascii(text[k])
    THEN (IF text \in DOMAIN c.hiragana_cache
          THEN CacheResult(c, SomeHiragana(c.hiragana_cache[text]))
          ELSE CacheResult([c EXCEPT !.hiragana_cache =
                                map_insert(@, text, to_hiragana(to_lowercase(text)))],
                           SomeHiragana(to_hiragana(to_lowercase(text)))))
    ELSE CacheResult(c, NoHiragana)

\* let lower = self.cache.get_lowercase(text); let hiragana = self.cache.get_hiragana(text);
normalized(c, text) ==
    [cache    |-> cached_hiragana(cached_lowercase(c, text).cache, text).cache,
     lower    |-> cached_lowercase(c, text).value,
     hiragana |-> cached_hiragana(cached_lowercase(c, text).cache, text).value]

\* lower.contains(keyword) || hiragana.map_or(false, |h| h.contains(&keyword.to_hiragana()))
forms_have_keyword(forms, keyword) ==
    \/ contains(forms.lower, keyword)
    \/ /\ forms.hiragana.some
       /\ contains(forms.hiragana.text, to_hiragana(keyword))

\* aliases.iter().any(..): the aliases are normalized one after the other up to the
\* first that has the keyword
RECURSIVE any_alias(_, _, _)
any_alias(c, aliases, keyword) ==
    IF aliases = <<>> THEN CacheResult(c, FALSE)
    ELSE IF forms_have_keyword(normalized(c, Head(aliases)), keyword)
         THEN CacheResult(normalized(c, Head(aliases)).cache, TRUE)
    ELSE any_alias(normalized(c, Head(aliases)).cache, Tail(aliases), keyword)

\* keywords.iter().all(..) of the second pass: it stops at the first keyword that
\* neither the name nor an alias has
RECURSIVE all_keywords(_, _, _, _)
all_keywords(c, name_forms, aliases, keywords) ==
    IF keywords = <<>> THEN CacheResult(c, TRUE)
    ELSE IF forms_have_keyword(name_forms, Head(keywords))
         THEN all_keywords(c, name_forms, aliases, Tail(keywords))
    ELSE IF any_alias(c, aliases, Head(keywords)).value
         THEN all_keywords(any_alias(c, aliases, Head(keywords)).cache, name_forms, aliases,
                           Tail(keywords))
    ELSE CacheResult(any_alias(c, aliases, Head(keywords)).cache, FALSE)

\* One pass of search_and, the cache in st.cache
RECURSIVE and_pass_cached(_, _, _, _, _, _)
and_pass_cached(store, order, keywords, limit, pass, st) ==
    IF st.returned \/ order = <<>> THEN st
    ELSE IF pass = 2 /\ Head(order) \in st.seen
         THEN and_pass_cached(store, Tail(order), keywords, limit, pass, st)
    ELSE LET doc_name == Head(order)
             name_forms == normalized(st.cache, doc_name)
             tested == IF pass = 1
                       THEN CacheResult(name_forms.cache,
                                \A k \in 1..Len(keywords) :
                                    forms_have_keyword(name_forms, keywords[k]))
                       ELSE all_keywords(name_forms.cache, name_forms, store[doc_name],
                                         keywords)
         IN IF tested.value /\ doc_name \notin st.seen
            THEN and_pass_cached(store, Tail(order), keywords, limit, pass,
                     [matches  |-> Append(st.matches, doc_name),
                      seen     |-> st.seen \cup {doc_name},
                      returned |-> Len(st.matches) + 1 >= limit,
                      cache    |-> tested.cache])
            ELSE and_pass_cached(store, Tail(order), keywords, limit, pass,
                     [st EXCEPT !.cache = tested.cache])

\* SearchEngine::search_and on the cache c, the store iterated in the given order:
\* the list returned and the cache left
search_and_cached(c, store, order, keywords, limit) ==
    LET st == and_pass_cached(store, order, keywords, limit, 2,
                  and_pass_cached(store, order, keywords, limit, 1,
                      [matches |-> <<>>, seen |-> {}, returned |-> FALSE, cache |-> c]))
    IN CacheResult(st.cache, st.matches)

\* for alias in aliases { .. }: best_priority after the loop, and the cache
RECURSIVE alias_loop_cached(_, _, _, _)
alias_loop_cached(c, best, aliases, query) ==
    IF aliases = <<>> THEN CacheResult(c, best)
    ELSE alias_loop_cached(normalized(c, Head(aliases)).cache,
                           alias_class(best, normalized(c, Head(aliases)).lower,
                                       normalized(c, Head(aliases)).hiragana, query),
                           Tail(aliases), query)

\* for query in queries { .. }: best_priority after the loop, and the cache
RECURSIVE query_loop_cached(_, _, _, _, _)
query_loop_cached(c, best, doc_name, aliases, queries) ==
    IF queries = <<>> THEN CacheResult(c, best)
    ELSE LET name_forms == normalized(c, doc_name)
             named == name_class(best, name_forms.lower, name_forms.hiragana, Head(queries))
         IN IF named.broke \/ named.best = NameExact
            THEN CacheResult(name_forms.cache, named.best)
            ELSE query_loop_cached(
                     alias_loop_cached(name_forms.cache, named.best, aliases,
                                       Head(queries)).cache,
                     alias_loop_cached(name_forms.cache, named.best, aliases,
                                       Head(queries)).value,
                     doc_name, aliases, Tail(queries))

\* The loop of search_unified over the store, the cache in st.cache
RECURSIVE collect_candidates_cached(_, _, _, _, _)
collect_candidates_cached(store, order, queries, limit, st) ==
    IF order = <<>> THEN st
    ELSE LET classed == query_loop_cached(st.cache, NoPriority, Head(order),
                                          store[Head(order)], queries)
         IN IF classed.value = NoPriority
            THEN collect_candidates_cached(store, Tail(order), queries, limit,
                     [st EXCEPT !.cache = classed.cache])
            ELSE IF Len(st.candidates) + 1 >= limit * 2
            THEN [candidates |-> Append(st.candidates, [priority |-> classed.value,
                                                        name     |-> Head(order)]),
                  cache      |-> classed.cache]
            ELSE collect_candidates_cached(store, Tail(order), queries, limit,
                     [candidates |-> Append(st.candidates, [priority |-> classed.value,
                                                            name     |-> Head(order)]),
                      cache      |-> classed.cache])

\* SearchEngine::search_unified on the cache c, the store iterated in the given order
search_unified_cached(c, store, order, queries, limit) ==
    LET st == collect_candidates_cached(store, order, queries, limit,
                                        [candidates |-> <<>>, cache |-> c])
    IN CacheResult(st.cache, take_names(sort_by_key(st.candidates, NameExact), limit))

\* StringCache::clear
cache_clear(c) == StringCache_new

\* StringCache::add_alias_mapping
add_alias_mapping(c, alias, doc_name) ==
    [c EXCEPT !.alias_to_doc =
        IF alias \in DOMAIN @ THEN [@ EXCEPT ![alias] = Append(@, doc_name)]
        ELSE map_insert(@, alias, <<doc_name>>)]

\* The entry of an alias is kept when its list has become empty.
remove_alias_mapping_keeps_empty(c, alias, doc_name) ==
    IF alias \in DOMAIN c.alias_to_doc
    THEN [c EXCEPT !.alias_to_doc[alias] = retain_other(@, doc_name)]
    ELSE c

\* StringCache::remove_alias_mapping
remove_alias_mapping(c, alias, doc_name) ==
    IF alias \notin DOMAIN c.alias_to_doc THEN c
    ELSE IF retain_other(c.alias_to_doc[alias], doc_name) = <<>>
         THEN [c EXCEPT !.alias_to_doc = map_remove(@, alias)]
    ELSE [c EXCEPT !.alias_to_doc[alias] = retain_other(@, doc_name)]

\* for alias in aliases { remove the cached forms of alias; remove_alias_mapping(..) }
RECURSIVE evict_aliases(_, _, _)
evict_aliases(c, doc_name, aliases) ==
    IF aliases = <<>> THEN c
    ELSE evict_aliases(
             remove_alias_mapping(
                 [c EXCEPT !.lowercase_cache = map_remove(@, Head(aliases)),
                           !.hiragana_cache = map_remove(@, Head(aliases))],
                 Head(aliases), doc_name),
             doc_name, Tail(aliases))

\* StringCache::remove_document
cache_remove_document(c, doc_name, aliases) ==
    evict_aliases([c EXCEPT !.lowercase_cache = map_remove(@, doc_name),
                            !.hiragana_cache = map_remove(@, doc_name)],
                  doc_name, aliases)


-----------------------------------------------------------------------------
(* Malformed texts and the diagnostics returned for them                   *)

\* The longest run of one-byte characters before and after the middle of a text
MaxRunLen == 22

\* Malformed texts: a run of one-byte characters, then nothing, a three-byte
\* character or a line feed, then another run
JsonTexts ==
    { [k \in 1..pre |-> "x"] \o mid \o [k \in 1..post |-> "x"] :
        pre \in 0..MaxRunLen, post \in 0..MaxRunLen, mid \in {<<>>, <<"U3042">>, <<"LF">>} }

\* A call that returned the parse error val for the text json
ParseFailure(op, json, consumed, val) ==
    [op |-> op, json |-> json, consumed |-> consumed, ok |-> FALSE, val |-> val]

DiagInit == Init

\* add_documents on a malformed text: Err(log_json_error(json, &e))
AddDocumentsMalformed ==
    /\ ret.op = "idle"
    /\ \E json \in JsonTexts : \E consumed \in 0..str_len(json) :
           ret' = ParseFailure("add_documents", json, consumed,
                               log_json_error(json, error_line(json, consumed),
                                              error_column(json, consumed)))
    /\ UNCHANGED <<postings, doc_len, doc_aliases, n_docs, k1, b, cache>>

\* search on a malformed text: Err(e.to_string())
SearchMalformed ==
    /\ ret.op = "idle"
    /\ \E json \in JsonTexts : \E consumed \in 0..str_len(json) :
           ret' = ParseFailure("search", json, consumed,
                               error_to_string(error_line(json, consumed),
                                               error_column(json, consumed)))
    /\ UNCHANGED <<postings, doc_len, doc_aliases, n_docs, k1, b, cache>>

DiagNext ==
    \/ AddDocumentsMalformed
    \/ SearchMalformed
    \/ TakeResult

DiagSpec == DiagInit /\ [][DiagNext]_vars

-----------------------------------------------------------------------------
(* The scoring loop of search, one loop step at a time                     *)
(* ret holds the position of a running search: the expanded terms, the      *)
(* index t of the term of the outer loop, the index k of the next entry of  *)
(* that term's posting list, and doc_count, scores and match_types in st.    *)

Scan(op, original, result_limit, terms, t, k, st) ==
    [op |-> op, original |-> original, result_limit |-> result_limit, terms |-> terms,
     t |-> t, k |-> k, st |-> st]

\* An index that add_documents has built from one of the batches
ScanInit ==
    /\ \E batch \in Batches :
           /\ postings = add_documents(new, Json(batch)).idx.postings
           /\ doc_len = add_documents(new, Json(batch)).idx.doc_len
           /\ doc_aliases = add_documents(new, Json(batch)).idx.doc_aliases
           /\ n_docs = add_documents(new, Json(batch)).idx.n_docs
    /\ k1 = new.k1
    /\ b = new.b
    /\ cache = StringCache_new
    /\ ret = Idle

\* search up to the scoring loop: the query parsed, the tokens expanded and sorted
ScanStart ==
    /\ ret.op = "idle"
    /\ n_docs # 0
    /\ \E original \in Queries, limit \in Limits :
           ret' = Scan("scanning", original, unwrap_or(limit, DEFAULT_LIMIT),
                       expanded_2gram(original), 1, 1, NothingScored)
    /\ UNCHANGED <<postings, doc_len, doc_aliases, n_docs, k1, b, cache>>

\* The posting list of the term the outer loop is at (empty when there is none)
ScanList ==
    IF ret.t <= Len(ret.terms) /\ ret.terms[ret.t] \in DOMAIN postings
    THEN postings[ret.terms[ret.t]] ELSE <<>>

\* The body of the inner loop for one entry, the budget not being spent
ScanVisit ==
    /\ ret.op = "scanning"
    /\ ret.k <= Len(ScanList)
    /\ ~budget_spent(ret.st, ret.result_limit)
    /\ ret' = [ret EXCEPT !.k = @ + 1,
                          !.st = visit(Index, ret.original, ret.terms[ret.t],
                                       ScanList[ret.k], Len(ScanList), ret.st)]
    /\ UNCHANGED <<postings, doc_len, doc_aliases, n_docs, k1, b, cache>>

\* `break`: the budget is spent, the inner loop is left for the next term
ScanBreak ==
    /\ ret.op = "scanning"
    /\ ret.k <= Len(ScanList)
    /\ budget_spent(ret.st, ret.result_limit)
    /\ ret' = [ret EXCEPT !.t = @ + 1, !.k = 1]
    /\ UNCHANGED <<postings, doc_len, doc_aliases, n_docs, k1, b, cache>>

\* The term has no posting list, or its list is exhausted: the next term
ScanNextTerm ==
    /\ ret.op = "scanning"
    /\ ret.t <= Len(ret.terms)
    /\ ret.k > Len(ScanList)
    /\ ret' = [ret EXCEPT !.t = @ + 1, !.k = 1]
    /\ UNCHANGED <<postings, doc_len, doc_aliases, n_docs, k1, b, cache>>

\* The outer loop is over
ScanFinish ==
    /\ ret.op = "scanning"
    /\ ret.t > Len(ret.terms)
    /\ ret' = [ret EXCEPT !.op = "scanned"]
    /\ UNCHANGED <<postings, doc_len, doc_aliases, n_docs, k1, b, cache>>

ScanNext ==
    \/ ScanStart
    \/ ScanVisit
    \/ ScanBreak
    \/ ScanNextTerm
    \/ ScanFinish
    \/ TakeResult

ScanSpec == ScanInit /\ [][ScanNext]_vars

\* SearchEngine::search_and and search_unified take &mut self: each returns its list
\* and leaves in the cache the forms of the names and aliases it has looked at.
SearchAnd ==
    /\ ret.op = "idle"
    /\ \E keywords \in KeywordLists, limit \in 0..MaxLimit,
          order \in iter_orders(DOMAIN doc_aliases) :
           /\ cache' = search_and_cached(cache, doc_aliases, order, keywords, limit).cache
           /\ ret' = Ret("search_and", <<>>, Json(keywords), limit, TRUE,
                         search_and_in(doc_aliases, order, keywords, limit),
                         EmptyMap, EmptyMap)
    /\ UNCHANGED <<postings, doc_len, doc_aliases, n_docs, k1, b>>

SearchUnified ==
    /\ ret.op = "idle"
    /\ \E queries \in KeywordLists, limit \in 0..MaxLimit,
          order \in iter_orders(DOMAIN doc_aliases) :
           /\ cache' = search_unified_cached(cache, doc_aliases, order, queries, limit).cache
           /\ ret' = Ret("search_unified", <<>>, Json(queries), limit, TRUE,
                         search_unified_in(doc_aliases, order, queries, limit),
                         EmptyMap, EmptyMap)
    /\ UNCHANGED <<postings, doc_len, doc_aliases, n_docs, k1, b>>

EngineNext ==
    \/ SearchAnd
    \/ SearchUnified
    \/ TakeResult

EngineSpec == EngineInit /\ [][EngineNext]_vars

-----------------------------------------------------------------------------
(* The engine and its cache as a state machine: searches that read through  *)
(* the cache and leave their entries in it, evictions and clear             *)

CacheStores ==
    { (sA :> <<hAIIA, sIA>>) @@ (sBigAI :> <<sAIIA>>) @@ (sAI :> <<>>),
      (hAIIA :> <<sAIIA>>) @@ (sBigAI :> <<hAIIA, sA>>) }

CacheKeywordLists == {<<sA>>, <<sAI>>, <<hAIIA, sIA>>}

\* Lists of the reverse index grow up to MaxMappings documents
MaxMappings == 2

MappingAliases == {sA, hAIIA}
MappingDocs == {sA, sBigAI}
MappingTexts == {sA, sBigAI, hAIIA}

\* The call the caller is looking at, the order the store was iterated in and the
\* cache the call started on
CacheRet(op, name, order, payload, limit, val, before) ==
    [op |-> op, name |-> name, order |-> order, payload |-> Json(payload), limit |-> limit,
     val |-> val, before |-> before]

CacheInit ==
    /\ postings = EmptyMap
    /\ doc_len = EmptyMap
    /\ doc_aliases \in CacheStores
    /\ n_docs = 0
    /\ k1 = new.k1
    /\ b = new.b
    /\ cache = StringCache_new
    /\ ret = Idle

IndexFieldsUnchanged == UNCHANGED <<postings, doc_len, doc_aliases, n_docs, k1, b>>

CachedSearchAnd ==
    /\ ret.op = "idle"
    /\ \E keywords \in CacheKeywordLists, limit \in 0..MaxLimit,
          order \in iter_orders(DOMAIN doc_aliases) :
           /\ cache' = search_and_cached(cache, doc_aliases, order, keywords, limit).cache
           /\ ret' = CacheRet("cached_search_and", <<>>, order, keywords, limit,
                              search_and_cached(cache, doc_aliases, order, keywords,
                                                limit).value,
                              cache)
    /\ IndexFieldsUnchanged

CachedSearchUnified ==
    /\ ret.op = "idle"
    /\ \E queries \in CacheKeywordLists, limit \in 0..MaxLimit,
          order \in iter_orders(DOMAIN doc_aliases) :
           /\ cache' = search_unified_cached(cache, doc_aliases, order, queries, limit).cache
           /\ ret' = CacheRet("cached_search_unified", <<>>, order, queries, limit,
                              search_unified_cached(cache, doc_aliases, order, queries,
                                                    limit).value,
                              cache)
    /\ IndexFieldsUnchanged

\* StringCache::remove_document for a document of the store and its aliases
CacheRemoveDocument ==
    /\ ret.op = "idle"
    /\ \E doc_name \in DOMAIN doc_aliases :
           /\ cache' = cache_remove_document(cache, doc_name, doc_aliases[doc_name])
           /\ ret' = CacheRet("cache_remove_document", doc_name, <<>>,
                              doc_aliases[doc_name], None, "unit", cache)
    /\ IndexFieldsUnchanged

CacheClear ==
    /\ ret.op = "idle"
    /\ cache' = cache_clear(cache)
    /\ ret' = CacheRet("cache_clear", <<>>, <<>>, <<>>, None, "unit", cache)
    /\ IndexFieldsUnchanged

CacheNext ==
    \/ CachedSearchAnd
    \/ CachedSearchUnified
    \/ CacheRemoveDocument
    \/ CacheClear
    \/ TakeResult

CacheSpec == CacheInit /\ [][CacheNext]_vars

-----------------------------------------------------------------------------
(* The StringCache called directly: the two lookups, the reverse index of   *)
(* aliases, eviction and clear                                              *)

MappingInit == CacheInit

GetLowercase ==
    /\ ret.op = "idle"
    /\ \E text \in MappingTexts :
           /\ cache' = cached_lowercase(cache, text).cache
           /\ ret' = CacheRet("get_lowercase", text, <<>>, <<>>, None,
                              cached_lowercase(cache, text).value, cache)
    /\ IndexFieldsUnchanged

GetHiragana ==
    /\ ret.op = "idle"
    /\ \E text \in MappingTexts :
           /\ cache' = cached_hiragana(cache, text).cache
           /\ ret' = CacheRet("get_hiragana", text, <<>>, <<>>, None,
                              cached_hiragana(cache, text).value, cache)
    /\ IndexFieldsUnchanged

AddAliasMapping ==
    /\ ret.op = "idle"
    /\ \E alias \in MappingAliases, doc_name \in MappingDocs :
           /\ Len(map_get_or(cache.alias_to_doc, alias, <<>>)) < MaxMappings
           /\ cache' = add_alias_mapping(cache, alias, doc_name)
           /\ ret' = CacheRet("add_alias_mapping", doc_name, <<>>, <<alias>>, None, "unit",
                              cache)
    /\ IndexFieldsUnchanged

RemoveAliasMapping ==
    /\ ret.op = "idle"
    /\ \E alias \in MappingAliases, doc_name \in MappingDocs :
           /\ cache' = remove_alias_mapping(cache, alias, doc_name)
           /\ ret' = CacheRet("remove_alias_mapping", doc_name, <<>>, <<alias>>, None,
                              "unit", cache)
    /\ IndexFieldsUnchanged

MappingNext ==
    \/ GetLowercase
    \/ GetHiragana
    \/ AddAliasMapping
    \/ RemoveAliasMapping
    \/ CacheRemoveDocument
    \/ CacheClear
    \/ TakeResult

MappingSpec == MappingInit /\ [][MappingNext]_vars

-----------------------------------------------------------------------------
(* Searches under ranking parameters other than the defaults                *)
(* set_params stores any k1 and b.  With k1 = -1.9 and b = 0 the BM25 term   *)
(* of a verbatim query term (tf = 2) is about -18 * idf.                     *)

ParamInit == Init

ParamNext ==
    \/ SetParams
    \/ AddDocuments
    \/ Search
    \/ TakeResult

ParamSpec == ParamInit /\ [][ParamNext]_vars

-----------------------------------------------------------------------------
(* The older engine (src/src/lib.rs)                                        *)
(* Its Index has no doc_aliases; add_documents, the query expansion, the    *)
(* BM25 term and the match flags read as in the current engine.  Its search *)
(* adds no bonus, defaults the limit to 20, and ranks by the whole flag     *)
(* byte instead of the best class.                                          *)

OLD_DEFAULT_LIMIT == 20

\* ((match_type & MATCH_NAME_EXACT) >> 0) | ... | ((match_type & MATCH_ALIAS_PARTIAL) >> 0):
\* the value of the flag byte
old_priority(match_type) ==
    (IF MATCH_NAME_EXACT \in match_type THEN MATCH_NAME_EXACT ELSE 0)
    + (IF MATCH_ALIAS_EXACT \in match_type THEN MATCH_ALIAS_EXACT ELSE 0)
    + (IF MATCH_NAME_PREFIX \in match_type THEN MATCH_NAME_PREFIX ELSE 0)
    + (IF MATCH_ALIAS_PREFIX \in match_type THEN MATCH_ALIAS_PREFIX ELSE 0)
    + (IF MATCH_NAME_PARTIAL \in match_type THEN MATCH_NAME_PARTIAL ELSE 0)
    + (IF MATCH_ALIAS_PARTIAL \in match_type THEN MATCH_ALIAS_PARTIAL ELSE 0)

\* One pass of the body of `for doc_id in list` after the budget test.
old_visit(idx, original, term, doc_id, df, st) ==
    LET original_terms == {original[k] : k \in 1..Len(original)}
        tf == IF term \in original_terms THEN 2 ELSE 1
        len == map_get_or(idx.doc_len, doc_id, 1)
        score == bm25(idx.k1, idx.b, idf_of(idx.n_docs, df), tf, len,
                      sum_values(idx.doc_len, DOMAIN idx.doc_len), idx.n_docs)
    IN [doc_count   |-> st.doc_count + 1,
        scores      |-> map_insert(st.scores, doc_id, map_get_or(st.scores, doc_id, 0) + score),
        match_types |-> map_insert(st.match_types, doc_id,
                            map_get_or(st.match_types, doc_id, {})
                            \cup match_flag(original_terms, term, doc_id))]

RECURSIVE old_scan_list(_, _, _, _, _, _, _)
old_scan_list(idx, original, term, list, k, result_limit, st) ==
    IF k > Len(list) THEN st
    ELSE IF budget_spent(st, result_limit) THEN st
    ELSE old_scan_list(idx, original, term, list, k + 1, result_limit,
                       old_visit(idx, original, term, list[k], Len(list), st))

RECURSIVE old_scan_terms(_, _, _, _, _)
old_scan_terms(idx, original, terms, result_limit, st) ==
    IF terms = <<>> THEN st
    ELSE IF Head(terms) \notin DOMAIN idx.postings
         THEN old_scan_terms(idx, original, Tail(terms), result_limit, st)
    ELSE old_scan_terms(idx, original, Tail(terms), result_limit,
                        old_scan_list(idx, original, Head(terms), idx.postings[Head(terms)],
                                      1, result_limit, st))

old_scored(idx, original, result_limit) ==
    old_scan_terms(idx, original, expanded_2gram(original), result_limit, NothingScored)

\* The sort path's comparator says d comes after e: b_priority.cmp(&a_priority), then
\* b_score.partial_cmp(a_score)
old_sort_less(st, d, e) ==
    LET d_priority == old_priority(map_get_or(st.match_types, d, {}))
        e_priority == old_priority(map_get_or(st.match_types, e, {}))
    IN \/ d_priority < e_priority
       \/ d_priority = e_priority /\ st.scores[d] < st.scores[e]

\* ScoredDoc::cmp(d, e) == Less: priority, then score_bits
old_scored_doc_less(st, d, e) ==
    LET d_priority == old_priority(map_get_or(st.match_types, d, {}))
        e_priority == old_priority(map_get_or(st.match_types, e, {}))
    IN \/ d_priority < e_priority
       \/ d_priority = e_priority /\ score_bits_less(st.scores[d], st.scores[e])

RECURSIVE old_sorted_orders(_, _)
old_sorted_orders(st, cands) ==
    IF cands = {} THEN {<<>>}
    ELSE UNION { {<<d>> \o rest : rest \in old_sorted_orders(st, cands \ {d})} :
                 d \in {x \in cands : \A y \in cands : ~old_sort_less(st, x, y)} }

RECURSIVE old_drain_orders(_, _)
old_drain_orders(st, cands) ==
    IF cands = {} THEN {<<>>}
    ELSE UNION { {<<d>> \o rest : rest \in old_drain_orders(st, cands \ {d})} :
                 d \in {x \in cands : \A y \in cands : ~old_scored_doc_less(st, x, y)} }

RECURSIVE old_heap_fill(_, _, _, _)
old_heap_fill(st, heaps, todo, result_limit) ==
    IF todo = {} THEN heaps
    ELSE LET d == CHOOSE x \in todo : TRUE
             pushed(h) == h \cup {d}
             popped(h) == IF Cardinality(pushed(h)) > result_limit
                          THEN {pushed(h) \ {m} :
                                  m \in {x \in pushed(h) :
                                           \A y \in pushed(h) : ~old_scored_doc_less(st, y, x)}}
                          ELSE {pushed(h)}
         IN old_heap_fill(st, UNION {popped(h) : h \in heaps}, todo \ {d}, result_limit)

old_select_top(st, result_limit) ==
    IF Cardinality(DOMAIN st.scores) > result_limit * 2 /\ result_limit < HEAP_LIMIT
    THEN UNION {old_drain_orders(st, h) :
                  h \in old_heap_fill(st, {{}}, DOMAIN st.scores, result_limit)}
    ELSE {take(o, result_limit) : o \in old_sorted_orders(st, DOMAIN st.scores)}

\* Index::search of the older engine: the set of outcomes it can return
old_search(idx, query_json, limit) ==
    IF ~query_json.wellformed THEN {SearchOutcome(FALSE, "error", NothingScored)}
    ELSE IF idx.n_docs = 0 THEN {SearchOutcome(TRUE, <<>>, NothingScored)}
    ELSE LET st == old_scored(idx, query_json.data, unwrap_or(limit, OLD_DEFAULT_LIMIT))
         IN {SearchOutcome(TRUE, r, st) :
               r \in old_select_top(st, unwrap_or(limit, OLD_DEFAULT_LIMIT))}

\* A batch that repeats a name, and a batch with a document named in hiragana whose
\* aliases hold the romaji, next to documents that carry the hiragana as an alias
OldBatches ==
    { <<Doc(sA, <<>>), Doc(sAI, <<sA>>), Doc(sA, <<sA, sAI, sEmpty, sA>>)>>,
      <<Doc(hAIIA, <<sAI, sA, sIA, sEmpty>>), Doc(sAIIA, <<>>), Doc(sA, <<hAIIA>>),
        Doc(sIA, <<hAIIA>>)>> }

OldQueries == {<<>>, <<sA>>, <<sAI>>, <<hAIIA>>, <<sAI, sA>>}
OldQueryPayloads == {Malformed} \cup {Json(q) : q \in OldQueries}

OldBatchPayloads == {Malformed, MalformedAcross} \cup {Json(batch) : batch \in OldBatches}

\* The number of fields of the older struct Index: postings, doc_len, n_docs, k1, b
OLD_INDEX_FIELDS == 5

\* Index::dump of the older engine: bincode::serialize(self), the two maps iterated in
\* the given orders
old_dump(idx, postings_order, doc_len_order) ==
    <<encode_map(idx.postings, postings_order), encode_map(idx.doc_len, doc_len_order),
      idx.n_docs, idx.k1, idx.b>>

\* Index::load of the older engine; idx is the index the caller holds
old_load(idx, bytes) ==
    IF Len(bytes) # OLD_INDEX_FIELDS THEN Err(idx)
    ELSE Ok([idx EXCEPT !.postings = decode_map(bytes[1]),
                        !.doc_len  = decode_map(bytes[2]),
                        !.n_docs   = bytes[3],
                        !.k1       = bytes[4],
                        !.b        = bytes[5]], "index")

\* Index::new of the older engine
OldInit == Init

\* The older Index has no doc_aliases: the field of the model stays empty.  Its
\* mutators read as those of the current engine without the doc_aliases statements.
OldBecomes(idx) ==
    /\ postings' = idx.postings
    /\ doc_len' = idx.doc_len
    /\ n_docs' = idx.n_docs
    /\ k1' = idx.k1
    /\ b' = idx.b
    /\ UNCHANGED <<doc_aliases, cache>>

OldAddDocuments ==
    \E json \in OldBatchPayloads :
        /\ ret.op = "idle"
        /\ OldBecomes(add_documents(Index, json).idx)
        /\ ret' = Returned("add_documents", <<>>, json, add_documents(Index, json))

OldAddDocument ==
    \E name \in Names, json \in AliasPayloads :
        /\ ret.op = "idle"
        /\ OldBecomes(add_document(Index, name, json).idx)
        /\ ret' = Returned("add_document", name, json, add_document(Index, name, json))

OldUpdateDocument ==
    \E name \in Names, json \in AliasPayloads :
        /\ ret.op = "idle"
        /\ OldBecomes(update_document(Index, name, json).idx)
        /\ ret' = Returned("update_document", name, json, update_document(Index, name, json))

OldRemoveDocument ==
    \E name \in Names :
        /\ ret.op = "idle"
        /\ OldBecomes(remove_document(Index, name).idx)
        /\ ret' = Returned("remove_document", name, Malformed, remove_document(Index, name))

OldReplaceAllDocuments ==
    \E json \in OldBatchPayloads :
        /\ ret.op = "idle"
        /\ OldBecomes(replace_all_documents(Index, json).idx)
        /\ ret' = Returned("replace_all_documents", <<>>, json,
                           replace_all_documents(Index, json))

OldClearIndex ==
    /\ ret.op = "idle"
    /\ OldBecomes(clear_index(Index))
    /\ ret' = Returned("clear_index", <<>>, Malformed, Ok(clear_index(Index), "unit"))

OldSetParams ==
    \E choice \in ParamChoices :
        /\ ret.op = "idle"
        /\ OldBecomes(set_params(Index, choice[1], choice[2]))
        /\ ret' = Returned("set_params", <<>>, Json(choice),
                           Ok(set_params(Index, choice[1], choice[2]), "unit"))

OldSearch ==
    /\ ret.op = "idle"
    /\ \E json \in OldQueryPayloads, limit \in Limits :
        \E r \in old_search(Index, json, limit) :
            /\ UNCHANGED <<postings, doc_len, doc_aliases, n_docs, k1, b, cache>>
            /\ ret' = Ret("old_search", <<>>, json, limit, r.ok, r.val, r.scores, r.match_types)

OldDump ==
    /\ ret.op = "idle"
    /\ Cardinality(DOMAIN postings) <= MaxDumpedTokens
    /\ \E postings_order \in iter_orders(DOMAIN postings),
          doc_len_order \in iter_orders(DOMAIN doc_len) :
           ret' = Ret("dump", <<>>, Malformed, None, TRUE,
                      old_dump(Index, postings_order, doc_len_order), EmptyMap, EmptyMap)
    /\ UNCHANGED <<postings, doc_len, doc_aliases, n_docs, k1, b, cache>>

\* The caller loads the buffer dump has just returned, or a buffer cut short.
OldLoad ==
    /\ ret.op = "dump"
    /\ \E bytes \in {ret.val, SubSeq(ret.val, 1, Len(ret.val) - 1)} :
           /\ OldBecomes(old_load(Index, bytes).idx)
           /\ ret' = Ret("load", <<>>, Json(bytes), None, old_load(Index, bytes).ok,
                         old_load(Index, bytes).val, EmptyMap, EmptyMap)

OldNext ==
    \/ OldAddDocuments
    \/ OldAddDocument
    \/ OldUpdateDocument
    \/ OldRemoveDocument
    \/ OldReplaceAllDocuments
    \/ OldClearIndex
    \/ OldSetParams
    \/ OldSearch
    \/ OldDump
    \/ OldLoad
    \/ TakeResult

OldSpec == OldInit /\ [][OldNext]_vars

-----------------------------------------------------------------------------
(* Properties                                                              *)

Range(s) == {s[k] : k \in 1..Len(s)}

IndexUnchanged == UNCHANGED <<postings, doc_len, doc_aliases, n_docs, k1, b, cache>>

HasRepeatedName(batch) ==
    \E j, k \in 1..Len(batch) : j < k /\ batch[j].name = batch[k].name

\* C1: n_docs is the number of stored documents, which are the keys of doc_len and
\* the keys of doc_aliases, after any sequence of mutations.
C1_CountMatchesStore ==
    /\ n_docs = Cardinality(DOMAIN doc_len)
    /\ DOMAIN doc_len = DOMAIN doc_aliases

\* A batch that repeats a name has been added to a store that already held documents.
C1_Witness ==
    /\ ret.op = "add_documents"
    /\ ret.ok
    /\ HasRepeatedName(ret.payload.data)
    /\ n_docs = 3
    /\ n_docs < Len(ret.payload.data) + 1

\* The tokens the store derives for document D: its name, its aliases, and the
\* tokenizer output for each of them.
DerivedTokens(D) ==
    LET texts == {D} \cup Range(doc_aliases[D])
    IN texts \cup UNION {Range(tokenize_2gram(x)) : x \in texts}

AllDerivedTokens == UNION {DerivedTokens(D) : D \in DOMAIN doc_aliases}

\* C2: for every stored document D and token t, D is listed under t exactly when t
\* is D's name, one of its aliases, or a tokenizer output of one of them.
C2_PostingsDerived ==
    LET tokens == (DOMAIN postings) \cup AllDerivedTokens
    IN \A D \in DOMAIN doc_aliases :
           LET derived == DerivedTokens(D)
           IN \A t \in tokens :
                  (t \in DOMAIN postings /\ D \in Range(postings[t])) <=> t \in derived

\* update_document has replaced aliases by a list in which an alias is skipped as
\* already seen, while another document keeps tokens that are not this document's.
C2_Witness ==
    /\ ret.op = "update_document"
    /\ ret.ok
    /\ ret.val = TRUE
    /\ ret.payload.data = <<sA, sAI, sEmpty, sA>>
    /\ \E t \in DOMAIN postings : ret.name \notin Range(postings[t])

\* C3: no posting list names a document twice.
C3_NoDuplicatePosting ==
    \A t \in DOMAIN postings :
        \A j, k \in 1..Len(postings[t]) : postings[t][j] = postings[t][k] => j = k

\* A document whose alias list repeats an alias and contains its own name and a
\* bigram-sized alias has been added.
C3_Witness ==
    /\ ret.op = "add_document"
    /\ ret.ok
    /\ ret.name = sAI
    /\ ret.payload.data = <<sA, sAI, sEmpty, sA>>
    /\ n_docs >= 2

\* C4: remove_document of a stored name returns true, leaves the name in no posting
\* list, leaves no empty posting list and decrements n_docs by one; of an absent name
\* it returns false and changes nothing.
C4_RemoveDocument ==
    [][ret'.op = "remove_document" =>
         IF ret'.name \in DOMAIN doc_len
         THEN /\ ret'.ok /\ ret'.val = TRUE
              /\ ret'.name \notin DOMAIN doc_len'
              /\ \A t \in DOMAIN postings' :
                     ret'.name \notin Range(postings'[t]) /\ postings'[t] # <<>>
              /\ n_docs' = n_docs - 1
         ELSE /\ ret'.ok /\ ret'.val = FALSE
              /\ n_docs' >= 0
              /\ IndexUnchanged]_vars

\* The document with the 51-byte name has been removed while other documents stay.
C4_Witness ==
    /\ ret.op = "remove_document"
    /\ ret.val = TRUE
    /\ str_len(ret.name) >= REMOVE_BIGRAM_BYTES
    /\ n_docs >= 1

\* C5 (as claimed): a mutation that returns an error leaves postings, doc_len,
\* doc_aliases and n_docs as they were.
C5_FailedMutationChangesNothing ==
    [][(/\ ret'.op \in {"add_documents", "add_document", "update_document",
                        "replace_all_documents"}
        /\ ~ret'.ok)
       => IndexUnchanged]_vars

\* C6: update_document and remove_document of an absent name return Ok(false) and
\* change nothing, whatever the payload; update_document of a stored name with a new
\* alias list returns Ok(true), keeps n_docs and the stored names, and stores the list.
C6_UpdateAndRemoveUnknown ==
    [][(ret'.op \in {"update_document", "remove_document"} =>
          IF ret'.name \notin DOMAIN doc_len
          THEN ret'.ok /\ ret'.val = FALSE /\ IndexUnchanged
          ELSE (ret'.op = "update_document" /\ ret'.payload.wellformed) =>
                   /\ ret'.ok /\ ret'.val = TRUE
                   /\ n_docs' = n_docs
                   /\ DOMAIN doc_aliases' = DOMAIN doc_aliases
                   /\ doc_aliases'[ret'.name] = ret'.payload.data
                   /\ doc_len'[ret'.name] = Len(ret'.payload.data) + 1)]_vars

\* update_document of an absent name with a malformed payload has returned false.
C6_Witness ==
    /\ ret.op = "update_document"
    /\ ~ret.payload.wellformed
    /\ ret.ok
    /\ ret.val = FALSE
    /\ n_docs >= 1

\* C7 (as claimed): tokenize_2gram gives [] for "", ["a"] for "a", ["ab"] for "ab" and
\* ["ab","bc","abc"] for "abc".
C7_TokenizerExamples ==
    ret.op = "tokenize_2gram" =>
        /\ ret.name = <<>> => ret.val = <<>>
        /\ ret.name = <<"a">> => ret.val = << <<"a">> >>
        /\ ret.name = <<"a", "b">> => ret.val = << <<"a", "b">> >>
        /\ ret.name = <<"a", "b", "c">> =>
               ret.val = << <<"a", "b">>, <<"b", "c">>, <<"a", "b", "c">> >>

\* C7 (amended): as above, but "ab" gives ["ab","ab"]: its one bigram, then the text.
C7_TokenizerExamplesAmended ==
    ret.op = "tokenize_2gram" =>
        /\ ret.name = <<>> => ret.val = <<>>
        /\ ret.name = <<"a">> => ret.val = << <<"a">> >>
        /\ ret.name = <<"a", "b">> => ret.val = << <<"a", "b">>, <<"a", "b">> >>
        /\ ret.name = <<"a", "b", "c">> =>
               ret.val = << <<"a", "b">>, <<"b", "c">>, <<"a", "b", "c">> >>

\* The tokenizer has been applied to "ab".
C7_Witness == ret.op = "tokenize_2gram" /\ ret.name = <<"a", "b">> /\ Len(ret.val) = 2

SearchReturned == ret.op = "search" /\ ret.payload.wellformed

ResultLimit == unwrap_or(ret.limit, DEFAULT_LIMIT)

\* D is stored with alias A and has the class this alias gives it in the results.
FoundByAlias(D, A) ==
    /\ ret.ok
    /\ D \in Range(ret.val)
    /\ D \in DOMAIN ret.match_types
    /\ calculate_priority(ret.match_types[D]) =
           (IF A = D THEN PRIORITY_NAME_EXACT ELSE PRIORITY_ALIAS_EXACT)

\* C8 (as claimed): search([A], limit) returns every stored document D that has
\* alias A, classified alias-exact (name-exact when A is D's name), for every limit.
C8_AliasSearchFindsDocument ==
    SearchReturned =>
        \A D \in DOMAIN doc_aliases :
            \A k \in 1..Len(doc_aliases[D]) :
                ret.payload.data = <<doc_aliases[D][k]>> => FoundByAlias(D, doc_aliases[D][k])

\* C8 (amended): the same for every limit that is at least the number of stored
\* documents.
C8_AliasSearchFindsDocumentAmended ==
    (SearchReturned /\ ResultLimit >= n_docs) =>
        \A D \in DOMAIN doc_aliases :
            \A k \in 1..Len(doc_aliases[D]) :
                ret.payload.data = <<doc_aliases[D][k]>> => FoundByAlias(D, doc_aliases[D][k])

\* A search for an alias shared by three documents, none of them named so, with an
\* explicit limit of at least n_docs, has returned them.
C8_Witness ==
    /\ SearchReturned
    /\ ret.limit # None
    /\ ret.limit >= n_docs
    /\ ret.payload.data = <<sA>>
    /\ \E D \in DOMAIN doc_aliases :
           D # sA /\ sA \in Range(doc_aliases[D]) /\ D \in Range(ret.val)

\* E matches the one-term query q only partially: q is neither E's name nor one of
\* E's aliases.
PartialOnly(E, q) ==
    /\ E # q
    /\ E \in DOMAIN doc_aliases => q \notin Range(doc_aliases[E])

\* C9 (as claimed): search([D.name], limit >= 1) for a stored D lists D at or above
\* every listed document that only partially matches.
C9_ExactNameFirst ==
    (/\ SearchReturned
     /\ Len(ret.payload.data) = 1
     /\ ret.payload.data[1] \in DOMAIN doc_len
     /\ ResultLimit >= 1)
    => /\ ret.ok
       /\ \A k \in 1..Len(ret.val) :
              PartialOnly(ret.val[k], ret.payload.data[1])
              => \E j \in 1..k : ret.val[j] = ret.payload.data[1]

\* C10: search([], 0) on any store, and any well-formed search on a store without
\* documents, return Ok of the empty list.
C10_EmptySearches ==
    SearchReturned =>
        /\ (ret.payload.data = <<>> /\ ret.limit = 0) => (ret.ok /\ ret.val = <<>>)
        /\ n_docs = 0 => (ret.ok /\ ret.val = <<>>)

\* A non-empty query has been answered on a store without documents.
C10_Witness ==
    /\ SearchReturned
    /\ n_docs = 0
    /\ ret.payload.data = <<sAI, sA>>
    /\ ret.limit = None
    /\ ret.val = <<>>

\* The class rank of a returned document: the priority of its best flag.
ReturnedPriority(d) == calculate_priority(map_get_or(ret.match_types, d, {}))

\* The selection ran on the bounded heap.
HeapPathTaken ==
    /\ Cardinality(DOMAIN ret.scores) > ResultLimit * 2
    /\ ResultLimit < HEAP_LIMIT

\* C11 (as claimed): the returned list is ordered by best match class, name-exact
\* first and unclassified last, and within one class by non-increasing accumulated
\* score, on the heap path and on the sort path.
C11_RankedByClassThenScore ==
    (SearchReturned /\ ret.ok) =>
        /\ Range(ret.val) \subseteq DOMAIN ret.scores
        /\ \A j, k \in 1..Len(ret.val) :
               j < k =>
                   \/ ReturnedPriority(ret.val[j]) > ReturnedPriority(ret.val[k])
                   \/ /\ ReturnedPriority(ret.val[j]) = ReturnedPriority(ret.val[k])
                      /\ ret.scores[ret.val[j]] >= ret.scores[ret.val[k]]

SameSearches(i1, i2) ==
    \A json \in QueryPayloads, limit \in Limits : search(i1, json, limit) = search(i2, json, limit)

IndexAfter == [postings |-> postings', doc_len |-> doc_len', doc_aliases |-> doc_aliases',
               n_docs |-> n_docs', k1 |-> k1', b |-> b']

\* C12: load(dump(index)) has the name -> aliases mapping and the n_docs of the dumped
\* index, and every search on it returns what it returns on the dumped index.
C12_DumpLoadRoundTrip ==
    [][(ret'.op = "load" /\ Len(ret'.payload.data) = INDEX_FIELDS) =>
          /\ ret'.ok
          /\ doc_aliases' = doc_aliases
          /\ n_docs' = n_docs
          /\ SameSearches(IndexAfter, Index)]_vars

\* An index in which a re-added document sits behind a later one in a shared posting
\* list has been dumped and loaded.
C12_Witness ==
    /\ ret.op = "load"
    /\ ret.ok
    /\ n_docs >= 2
    /\ sA \in DOMAIN postings
    /\ Len(postings[sA]) >= 2
    /\ postings[sA][1] # sA
    /\ sA \in Range(postings[sA])

\* C15 (as claimed): the buffer dump returns is determined by the name -> aliases
\* mapping and n_docs; the posting lists and the document lengths are not in it.
C15_DumpCarriesStoreOnly ==
    ret.op = "dump" =>
        \E doc_aliases_order \in iter_orders(DOMAIN doc_aliases) :
            ret.val = dump([postings |-> EmptyMap, doc_len |-> EmptyMap,
                            doc_aliases |-> doc_aliases, n_docs |-> n_docs,
                            k1 |-> K1_X10, b |-> B_X100],
                           <<>>, <<>>, doc_aliases_order)

\* C13: after add_document(name, A) has returned, update_document(name, A) returns
\* true and leaves an index on which every query and limit has the same search
\* result: the index itself is the same, posting-list order included, or else the
\* searches are compared one by one.
C13_AddThenUpdateIdempotent ==
    (ret.op = "add_document" /\ ret.ok) =>
        LET u == update_document(Index, ret.name, ret.payload)
        IN /\ u.ok
           /\ u.val = TRUE
           /\ (u.idx = Index \/ SameSearches(u.idx, Index))

\* add_document has re-added a document that shares a posting list with two other
\* documents, where it now stands last.
C13_Witness ==
    /\ ret.op = "add_document"
    /\ ret.ok
    /\ ret.payload.data = <<sA, sAI, sEmpty, sA>>
    /\ \E t \in DOMAIN postings :
           /\ Len(postings[t]) >= 3
           /\ postings[t][Len(postings[t])] = ret.name

\* C14 (as claimed): the list search_and returns names no document twice and has at
\* most limit entries, for every limit from 0 on.
C14_AndSearchDistinctAndCapped ==
    ret.op = "search_and" =>
        /\ \A j, k \in 1..Len(ret.val) : ret.val[j] = ret.val[k] => j = k
        /\ Len(ret.val) <= ret.limit

\* C16: clear_index leaves postings, doc_len and doc_aliases empty and n_docs = 0;
\* replace_all_documents with a well-formed payload leaves exactly the index that
\* add_documents builds from the payload on a new index with the same parameters,
\* whatever the index held.
C16_ClearAndReplaceAll ==
    [][/\ ret'.op = "clear_index" =>
              /\ postings' = EmptyMap
              /\ doc_len' = EmptyMap
              /\ doc_aliases' = EmptyMap
              /\ n_docs' = 0
       /\ (ret'.op = "replace_all_documents" /\ ret'.payload.wellformed) =>
              /\ ret'.ok
              /\ IndexAfter = add_documents(with_params(k1, b), ret'.payload).idx]_vars

\* replace_all_documents has replaced the store by the batch that repeats a name.
C16_Witness ==
    /\ ret.op = "replace_all_documents"
    /\ ret.ok
    /\ HasRepeatedName(ret.payload.data)
    /\ n_docs = 2
    /\ DOMAIN doc_aliases = {sA, sAI}

\* The number of characters of the text that begin among the consumed bytes
ErrorCharPosition ==
    Cardinality({k \in 1..Len(ret.json) : byte_offset(ret.json, k) < ret.consumed})

\* The text from CONTEXT_RADIUS characters before the error position to
\* CONTEXT_RADIUS characters after it, clamped to the text
ExpectedContext ==
    SubSeq(ret.json,
           (IF ErrorCharPosition > CONTEXT_RADIUS THEN ErrorCharPosition - CONTEXT_RADIUS ELSE 0)
           + 1,
           IF Len(ret.json) < ErrorCharPosition + CONTEXT_RADIUS THEN Len(ret.json)
           ELSE ErrorCharPosition + CONTEXT_RADIUS)

\* C17 (as claimed): the diagnostic that add_documents or search returns for a
\* malformed text is always built, names the line and column of the error and quotes
\* the text from 20 characters before to 20 characters after the error position.
C17_DiagnosticHasContext ==
    ret.op \in {"add_documents", "search"} =>
        /\ ~ret.val.panicked
        /\ ret.val.line = error_line(ret.json, ret.consumed)
        /\ ret.val.column = error_column(ret.json, ret.consumed)
        /\ ret.val.has_context
        /\ ret.val.context = ExpectedContext

\* C18: for a text of n >= 2 characters the tokenizer returns n tokens: for k < n the
\* k-th is the k-th and (k+1)-th character of the text, whole characters whatever
\* their length in bytes, and the n-th is the text; the byte slices the source takes
\* are these tokens.
C18_BigramsThenWhole ==
    (ret.op = "tokenize_2gram" /\ Len(ret.name) >= 2) =>
        /\ Len(ret.val) = Len(ret.name)
        /\ \A k \in 1..(Len(ret.name) - 1) : ret.val[k] = <<ret.name[k], ret.name[k + 1]>>
        /\ ret.val[Len(ret.name)] = ret.name
        /\ ret.val = tokenize_2gram_slices(ret.name)

\* The tokenizer has been applied to a text of MaxTextLen characters that mixes
\* one-byte and three-byte characters.
C18_Witness ==
    /\ ret.op = "tokenize_2gram"
    /\ Len(ret.name) = MaxTextLen
    /\ ret.name[1] = "a"
    /\ ret.name[2] = "U3042"
    /\ ret.name[3] = "b"
    /\ Len(ret.val) = MaxTextLen

\* C19 (as claimed): the expanded token list of a search that reaches the expansion
\* holds no token twice.
C19_ExpandedTokensDistinct ==
    (SearchReturned /\ n_docs > 0) =>
        LET e == expanded_2gram(ret.payload.data)
        IN \A j, k \in 1..Len(e) : e[j] = e[k] => j = k

\* More than 10 x limit visits have been made and at least 2 x limit documents are
\* scored.
BudgetConditionHolds(r) ==
    /\ r.st.doc_count > 10 * r.result_limit
    /\ Cardinality(DOMAIN r.st.scores) >= 2 * r.result_limit

\* Every document in the posting list of every expanded token is scored.
AllListedScored(r) ==
    \A j \in 1..Len(r.terms) :
        r.terms[j] \in DOMAIN postings => Range(postings[r.terms[j]]) \subseteq DOMAIN r.st.scores

\* C20: in every step of a running search, scores, classifications and the visit
\* count change only when the budget condition does not hold; once it holds it holds
\* after every later step; a search that ends without it has scored every document
\* of every expanded token's posting list; and the loop ends in the scores and
\* classifications that search ranks.
C20_BudgetStopsUpdates ==
    [][(ret.op = "scanning" /\ ret'.op \in {"scanning", "scanned"}) =>
          /\ BudgetConditionHolds(ret) => (ret'.st = ret.st /\ BudgetConditionHolds(ret'))
          /\ (ret'.op = "scanned" /\ ~BudgetConditionHolds(ret')) => AllListedScored(ret')
          /\ ret'.op = "scanned" => ret'.st = scored(Index, ret.original, ret.result_limit)]_vars

\* A search has ended with the budget spent while a term whose posting list was
\* never reached lists a document that has no score.
C20_Witness ==
    /\ ret.op = "scanned"
    /\ ret.result_limit >= 1
    /\ BudgetConditionHolds(ret)
    /\ ~AllListedScored(ret)

\* A search has ended without spending its budget after more than ten visits.
C20_WitnessNeverSpent ==
    /\ ret.op = "scanned"
    /\ ~BudgetConditionHolds(ret)
    /\ ret.st.doc_count > 10
    /\ AllListedScored(ret)

SelectionState == [doc_count |-> 0, scores |-> ret.scores, match_types |-> ret.match_types]

\* C21 (as claimed): whenever search selects through the bounded heap, the list it
\* returns is one that sorting all the scored candidates by priority, then by score
\* descending, and taking the first `limit` can give (candidates that tie on both may
\* come in any order); limit 0 included.
C21_HeapPathEqualsSortPath ==
    (SearchReturned /\ HeapPathTaken) => ret.val \in sort_path(SelectionState, ResultLimit)

\* The BM25 term a visit of document d under the term of the outer loop adds
VisitTerm(d) ==
    bm25(k1, b, idf_of(n_docs, Len(ScanList)),
         IF ret.terms[ret.t] \in Range(ret.original) THEN 2 ELSE 1,
         map_get_or(doc_len, d, 1), sum_values(doc_len, DOMAIN doc_len), n_docs)

\* +10 when the name is a verbatim query term, +5 when the name or an alias contains one
FlatBonuses(d) ==
    (IF d \in Range(ret.original) THEN EXACT_MATCH_BONUS * SCORE_UNIT ELSE 0)
    + (IF \E q \in Range(ret.original) :
              \/ contains(d, q)
              \/ \E a \in Range(map_get_or(doc_aliases, d, <<>>)) : contains(a, q)
       THEN CONTAINMENT_BONUS * SCORE_UNIT ELSE 0)

\* C22 (as claimed): a document receives its +10 and +5 bonuses once in a search: the
\* first visit of a document adds the BM25 term and the bonuses to its score, and
\* every later visit, under another expanded token, adds the BM25 term alone.
C22_BonusesGrantedOnce ==
    [][(ret.op = "scanning" /\ ret'.op = "scanning" /\ ret'.k = ret.k + 1) =>
          LET d == ScanList[ret.k]
          IN ret'.st.scores[d] =
                 IF d \in DOMAIN ret.st.scores
                 THEN ret.st.scores[d] + VisitTerm(d)
                 ELSE VisitTerm(d) + FlatBonuses(d)]_vars

AndSearchReturned == ret.op = "search_and"

AndKeywords == ret.payload.data

\* The documents of the store that qualify by name, and those that qualify at all
QualifiesByName(d) == name_has_all(d, AndKeywords)
Qualifies(d) == doc_has_all(d, doc_aliases[d], AndKeywords)

\* C23: in the list search_and returns, no document that qualifies only through its
\* aliases comes before a document whose name contains every keyword.
C23_NameMatchesBeforeAliasMatches ==
    AndSearchReturned =>
        \A i, j \in 1..Len(ret.val) :
            (i < j /\ QualifiesByName(ret.val[j])) => QualifiesByName(ret.val[i])

\* A list cut at its limit that holds a name match followed by an alias-only match,
\* a further qualifying document being left out.
C23_Witness ==
    /\ AndSearchReturned
    /\ ret.limit = 2
    /\ Len(ret.val) = 2
    /\ QualifiesByName(ret.val[1])
    /\ ~QualifiesByName(ret.val[2])
    /\ \E d \in DOMAIN doc_aliases : d \notin Range(ret.val) /\ Qualifies(d)

\* The matching rule: the keyword is in the lowercase of the text, or the text is all
\* ASCII and the transliteration of the keyword is in the transliteration of its lowercase
Matches(text, keyword) ==
    \/ contains(to_lowercase(text), keyword)
    \/ /\ \A k \in 1..Len(text) : text[k] \notin HiraganaChars
       /\ contains(to_hiragana(to_lowercase(text)), to_hiragana(keyword))

\* Each keyword is matched by the name or by some alias of the stored document d
EveryKeywordMatched(d) ==
    \A kw \in Range(AndKeywords) :
        \/ Matches(d, kw)
        \/ \E a \in Range(doc_aliases[d]) : Matches(a, kw)

\* C24: every document search_and returns is stored and has each keyword matched by
\* its name or by one of its aliases; a list shorter than the limit holds every stored
\* document of which that is true.
C24_AndSearchSoundAndComplete ==
    AndSearchReturned =>
        /\ \A i \in 1..Len(ret.val) :
               ret.val[i] \in DOMAIN doc_aliases /\ EveryKeywordMatched(ret.val[i])
        /\ Len(ret.val) < ret.limit =>
               \A d \in DOMAIN doc_aliases : EveryKeywordMatched(d) => d \in Range(ret.val)

\* A list shorter than its limit holds a document whose two keywords are matched by
\* two different aliases, neither alias matching both and the name matching neither.
C24_Witness ==
    /\ AndSearchReturned
    /\ Len(ret.val) < ret.limit
    /\ Len(AndKeywords) = 2
    /\ \E d \in Range(ret.val) :
           /\ \A kw \in Range(AndKeywords) : ~Matches(d, kw)
           /\ \A a \in Range(doc_aliases[d]) : \E kw \in Range(AndKeywords) : ~Matches(a, kw)

UnifiedReturned == ret.op = "search_unified"

UnifiedQueries == ret.payload.data

\* The best class the stored document d achieves over the queries (NoPriority: none)
BestClass(d) == best_priority(d, doc_aliases[d], UnifiedQueries)

\* C25 (as claimed): search_unified lists documents in non-decreasing priority rank,
\* and a stored document that is not in the list has no strictly better class than a
\* document that is: the list is a top-`limit` of the whole store.
C25_UnifiedIsTopK ==
    UnifiedReturned =>
        /\ \A i, j \in 1..Len(ret.val) : i < j => BestClass(ret.val[i]) <= BestClass(ret.val[j])
        /\ \A d \in DOMAIN doc_aliases :
               (BestClass(d) # NoPriority /\ d \notin Range(ret.val)) =>
                   \A i \in 1..Len(ret.val) : BestClass(ret.val[i]) <= BestClass(d)

\* Every entry of the two caches of c is what the cache computes for its key
CacheFresh(c) ==
    /\ \A t \in DOMAIN c.lowercase_cache : c.lowercase_cache[t] = to_lowercase(t)
    /\ \A t \in DOMAIN c.hiragana_cache :
           /\ \A k \in 1..Len(t) : t[k] \notin HiraganaChars
           /\ c.hiragana_cache[t] = to_hiragana(to_lowercase(t))

\* C26: every cache entry is the lowercase (the transliteration of the lowercase, for
\* an all-ASCII key) of its key, and a search on any cache the engine can be in returns
\* what it returns on the empty cache for the same store, iteration order, query and
\* limit, which is the list computed from the texts alone.
C26_CacheNeverStale ==
    [][/\ CacheFresh(cache')
       /\ ret'.op = "cached_search_and" =>
              /\ ret'.val = search_and_cached(StringCache_new, doc_aliases, ret'.order,
                                              ret'.payload.data, ret'.limit).value
              /\ ret'.val = search_and_in(doc_aliases, ret'.order, ret'.payload.data,
                                          ret'.limit)
       /\ ret'.op = "cached_search_unified" =>
              /\ ret'.val = search_unified_cached(StringCache_new, doc_aliases, ret'.order,
                                                  ret'.payload.data, ret'.limit).value
              /\ ret'.val = search_unified_in(doc_aliases, ret'.order, ret'.payload.data,
                                              ret'.limit)]_vars

\* A search has returned documents on a cache that earlier searches had filled and
\* remove_document had partly evicted: it held the forms of some texts of the store
\* and not those of a stored name, and the search has stored that name's forms.
C26_Witness ==
    /\ ret.op \in {"cached_search_and", "cached_search_unified"}
    /\ Len(ret.val) >= 1
    /\ ret.before.lowercase_cache # EmptyMap
    /\ ret.before.hiragana_cache # EmptyMap
    /\ \E d \in DOMAIN doc_aliases :
           /\ d \notin DOMAIN ret.before.lowercase_cache
           /\ d \in DOMAIN cache.lowercase_cache
           /\ d \in Range(ret.val)

\* No alias of the reverse index of c has an empty list
NoEmptyMapping(c) == \A alias \in DOMAIN c.alias_to_doc : c.alias_to_doc[alias] # <<>>

\* C27: no entry of the reverse index ever holds an empty list; remove_document(doc,
\* aliases) leaves no cached lowercase or hiragana form of doc or of a listed alias,
\* takes doc out of the list of every listed alias, keeping the other documents of
\* that list in their order (the entry is dropped when none is left), and leaves the
\* lists of the aliases that are not listed as they were.
C27_ReverseIndexMaintained ==
    [][/\ NoEmptyMapping(cache')
       /\ ret'.op = "cache_remove_document" =>
              /\ \A t \in {ret'.name} \cup Range(ret'.payload.data) :
                     /\ t \notin DOMAIN cache'.lowercase_cache
                     /\ t \notin DOMAIN cache'.hiragana_cache
              /\ \A alias \in DOMAIN cache.alias_to_doc :
                     map_get_or(cache'.alias_to_doc, alias, <<>>) =
                         IF alias \in Range(ret'.payload.data)
                         THEN retain_other(cache.alias_to_doc[alias], ret'.name)
                         ELSE cache.alias_to_doc[alias]
              /\ DOMAIN cache'.alias_to_doc \subseteq DOMAIN cache.alias_to_doc]_vars

\* remove_document has evicted a document whose name and alias had cached forms, from
\* a reverse index in which one of its aliases listed it together with another
\* document, which the list still holds, and another of its aliases listed it alone.
C27_Witness ==
    /\ ret.op = "cache_remove_document"
    /\ ret.name \in DOMAIN ret.before.lowercase_cache
    /\ \E alias \in Range(ret.payload.data) : alias \in DOMAIN ret.before.hiragana_cache
    /\ \E alias \in Range(ret.payload.data) :
           /\ alias \in DOMAIN ret.before.alias_to_doc
           /\ ret.name \in Range(ret.before.alias_to_doc[alias])
           /\ alias \in DOMAIN cache.alias_to_doc
           /\ cache.alias_to_doc[alias] # <<>>
    /\ \E alias \in Range(ret.payload.data) :
           /\ alias \in DOMAIN ret.before.alias_to_doc
           /\ alias \notin DOMAIN cache.alias_to_doc

OldSearchReturned == ret.op = "old_search" /\ ret.ok

\* C28 (as claimed): in the list the older engine's search returns, two documents
\* with the same best match class stand in descending order of score, whatever
\* flags of worse classes either of them carries.
C28_SameClassOrderedByScore ==
    OldSearchReturned =>
        \A i, j \in 1..Len(ret.val) :
            (i < j /\ ReturnedPriority(ret.val[i]) = ReturnedPriority(ret.val[j]))
                => ret.scores[ret.val[i]] >= ret.scores[ret.val[j]]

\* d is stored with an alias that is a verbatim query term of the returned search
AliasIsVerbatimTerm(d) ==
    \E a \in Range(map_get_or(doc_aliases, d, <<>>)) : a \in Range(ret.payload.data)

\* C29 (as claimed): after a search, a document whose class is name-exact has a name
\* equal to a verbatim query term, and a document whose class is alias-exact has an
\* alias equal to a verbatim query term.
C29_ExactClassesSound ==
    (SearchReturned /\ ret.ok) =>
        \A d \in DOMAIN ret.match_types :
            /\ ReturnedPriority(d) = PRIORITY_NAME_EXACT => d \in Range(ret.payload.data)
            /\ ReturnedPriority(d) = PRIORITY_ALIAS_EXACT => AliasIsVerbatimTerm(d)

HasNoRepeat(s) == \A i, j \in 1..Len(s) : i # j => s[i] # s[j]

\* C30: the list a search returns has at most `limit` entries (10 when no limit is
\* given), names no document twice, and names only documents that are stored.
C30_ResultWithinLimitAndStored ==
    (SearchReturned /\ ret.ok) =>
        /\ Len(ret.val) <= ResultLimit
        /\ HasNoRepeat(ret.val)
        /\ Range(ret.val) \subseteq DOMAIN doc_aliases

\* A search for a name that is no longer or not yet stored, whose list was cut at the
\* limit: more documents were scored than the limit allows to return.
C30_Witness ==
    /\ SearchReturned /\ ret.ok
    /\ ResultLimit >= 1
    /\ Len(ret.val) = ResultLimit
    /\ Cardinality(DOMAIN ret.scores) > ResultLimit
    /\ \E q \in Range(ret.payload.data) : q \in Names \ DOMAIN doc_aliases

====
